---- MODULE Spec2Model ----
(***************************************************************************)
(* A model of the AI request orchestration of KanopusDev/Aoede             *)
(* (src/app/services/ai_model.py): ChunkManager, ResponseAggregator,       *)
(* ModelRouter and AIModelService.  Text is a sequence of one-character    *)
(* strings; an error text is the sequence of its parts.                    *)
(***************************************************************************)
EXTENDS Integers, Sequences, FiniteSets, TLC

VARIABLES
    \* ---- one ChunkManager.chunk_content call
    content,        \* the content argument
    context_tokens, \* count_tokens(context, model) of the context argument
    strategy,       \* the strategy argument
    tokenizer,      \* how the model's encoder counts (see count_tokens)
    chunk_pc,       \* "call" before the call, "returned" / "hangs" after it
    chunks,         \* the list the call returned
    \* ---- one multi-chunk request: the dispatches and aggregate_responses
    agg_strategy,   \* the chunking_strategy of the request
    agg_chunks,     \* the chunks chunk_content returned for it
    responses,      \* per chunk position: Pending, or the dispatch's ModelResponse
    agg_pc,         \* "dispatch" while dispatches run, "done" after aggregate_responses
    merged_pairs,   \* the sorted_pairs the merge function went through
    aggregated,     \* the AggregatedResponse
    \* ---- the ModelRouter and its ModelHealthChecker
    MODEL_CONFIGS,  \* the configured models, in the order of the dict
    health_status,  \* ModelHealthChecker.health_status: model -> bool
    last_check,     \* ModelHealthChecker.last_check: model -> time of the probe
    now,            \* time.time()
    calls,          \* select_model calls made so far
    task_type,      \* the task_type argument of the last select_model call
    requires_tools, \* its requires_tools argument
    select_pc,      \* "idle" before a call, then "returned" / "raised"
    selected,       \* the model identifier the call returned
    walked,         \* the candidates the call asked the health checker about
    health_reports, \* model -> what check_model_health answers during the call
    \* ---- one AIModelService._make_single_request call
    req_chunk,      \* the chunk argument
    req_model,      \* the model argument
    max_retries,    \* the max_retries argument
    req_pc,         \* where the call is: "call", "loop", "rate_limit_sleep", "backoff",
                    \* then "returned" / "raised"
    attempt,        \* the loop variable
    last_error,     \* the local last_error
    outcomes,       \* how each attempt made so far ended
    sent,           \* the messages of each backend request made so far
    waits,          \* the asyncio.sleep calls made so far
    response,       \* the ModelResponse returned, or the exception raised
    \* ---- one AIModelService._process_chunks_concurrently call, on chunks
    tasks,          \* per chunk position: where its process_chunk_with_semaphore is
    semaphore,      \* the value of the asyncio.Semaphore
    gathered,       \* the result list of asyncio.gather: Pending, a ModelResponse
                    \* or the exception of the position's task
    final_responses, \* the list the call returns
    disp_pc,        \* "gather" while tasks run, then "returned" / "raised"
    \* ---- one AIModelService.generate_response call
    gen_pc,         \* "call", "chunk", "single", "multi", then "returned" / "raised"
    gen_result,     \* the ModelResponse or AggregatedResponse returned
    usage_stats,    \* router.usage_stats: model -> its cumulative counters
    \* ---- one ModelHealthChecker and the check_model_health calls made on it
    hc_status,      \* health_status: model -> the value stored ("True", "False", "None")
    hc_last_check,  \* last_check: model -> current_time of the call that wrote it
    hc_time,        \* time.time()
    hc_calls        \* the calls in the order they started: model, current_time,
                    \* "probing" / "done", the probe's end and the value returned

chunkVars == <<content, context_tokens, strategy, tokenizer, chunk_pc, chunks>>
aggVars == <<agg_strategy, agg_chunks, responses, agg_pc, merged_pairs, aggregated>>

routerVars == <<MODEL_CONFIGS, health_status, last_check, now, calls,
                task_type, requires_tools, select_pc, selected, walked, health_reports>>

requestVars == <<req_chunk, req_model, max_retries, req_pc, attempt, last_error,
                 outcomes, sent, waits, response>>

dispatchVars == <<tasks, semaphore, gathered, final_responses, disp_pc>>

generateVars == <<gen_pc, gen_result, usage_stats>>

healthVars == <<hc_status, hc_last_check, hc_time, hc_calls>>

vars == <<chunkVars, aggVars, routerVars, requestVars, dispatchVars, generateVars,
          healthVars>>

-----------------------------------------------------------------------------
(* Bounds of the model *)

\* the longest content enumerated exhaustively over Alphabet
MaxLen == 3
\* the largest positive token budget left by the context
MaxAvail == 3
\* the largest overshoot of the context over the request budget
MaxDeficit == 1
\* the longest chunk list whose dispatches are followed
MaxChunks == 4
\* the select_model calls followed on one router
MaxCalls == 2
\* the clock steps followed, of a health_check_interval each
MaxTicks == 1
\* the largest max_retries argument followed
MaxRetries == 3
\* chunks of a concurrent dispatch beyond the limit of the semaphore
MaxWaiting == 1
\* check_model_health calls followed on one health checker
MaxHealthCalls == 3

-----------------------------------------------------------------------------
(* Program constants *)

MAX_TOKENS_PER_REQUEST == 4000
TOKEN_SAFETY_BUFFER == 200
RESPONSE_BUFFER == 100
CHUNK_OVERLAP == 100
LOOKBACK_CHARS == 100
OVERLAP_LINES == 3
OVERLAP_SENTENCES == 1
MERGE_OVERLAP_LINES == 3
FALLBACK_CHARS_PER_TOKEN == 4
\* ModelHealthChecker.health_check_interval, in seconds
health_check_interval == 300
\* the status code of a rate limit response
RATE_LIMIT_STATUS == 429

SEMANTIC == "semantic"
FUNCTION_BASED == "function_based"
SENTENCE_BASED == "sentence_based"
TOKEN_BASED == "token_based"
HYBRID == "hybrid"
ChunkStrategy == {SEMANTIC, FUNCTION_BASED, SENTENCE_BASED, TOKEN_BASED, HYBRID}

-----------------------------------------------------------------------------
(* Python's str and list operations, on sequences of characters *)

Min(a, b) == IF a <= b THEN a ELSE b
Max(a, b) == IF a >= b THEN a ELSE b

\* int(num / den) for den > 0: truncation toward zero
IntTrunc(num, den) == IF num >= 0 THEN num \div den ELSE -((-num) \div den)

\* str.isspace() of one character
IsSpace(c) == c \in {" ", "\n", "\t"}

LowerCase == <<"a","b","c","d","e","f","g","h","i","j","k","l","m",
               "n","o","p","q","r","s","t","u","v","w","x","y","z">>
UpperCase == <<"A","B","C","D","E","F","G","H","I","J","K","L","M",
               "N","O","P","Q","R","S","T","U","V","W","X","Y","Z">>
Digits == {"0","1","2","3","4","5","6","7","8","9"}
Range(f) == {f[i] : i \in DOMAIN f}

\* the regular expression class \w
IsWord(c) == c \in Range(LowerCase) \cup Range(UpperCase) \cup Digits \cup {"_"}

\* str.lower()
LowerChar(c) ==
    IF c \in Range(UpperCase)
    THEN LowerCase[CHOOSE i \in DOMAIN UpperCase : UpperCase[i] = c]
    ELSE c
Lower(s) == [i \in DOMAIN s |-> LowerChar(s[i])]

\* s[a:b] for 0 <= a and 0 <= b
Slice(s, a, b) == SubSeq(s, a + 1, Min(b, Len(s)))

\* s.startswith(p)
StartsWith(s, p) == Len(p) <= Len(s) /\ SubSeq(s, 1, Len(p)) = p

\* p in s
IsSubstr(p, s) == \E i \in 0..(Len(s) - Len(p)) : SubSeq(s, i + 1, i + Len(p)) = p

\* s.find(p): the first 0-based position of p in s, -1 when there is none
Find(s, p) ==
    IF IsSubstr(p, s)
    THEN CHOOSE i \in 0..(Len(s) - Len(p)) :
            /\ SubSeq(s, i + 1, i + Len(p)) = p
            /\ \A j \in 0..(i - 1) : SubSeq(s, j + 1, j + Len(p)) # p
    ELSE -1

\* s.split(sep) for a non-empty separator
RECURSIVE Split(_, _)
Split(s, sep) ==
    LET i == Find(s, sep)
    IN  IF i < 0 THEN <<s>>
        ELSE <<SubSeq(s, 1, i)>> \o Split(SubSeq(s, i + Len(sep) + 1, Len(s)), sep)

\* sep.join(parts)
RECURSIVE Join(_, _)
Join(parts, sep) ==
    IF Len(parts) = 0 THEN <<>>
    ELSE IF Len(parts) = 1 THEN parts[1]
    ELSE parts[1] \o sep \o Join(Tail(parts), sep)

\* s.lstrip(), s.rstrip(), s.strip()
RECURSIVE LStrip(_)
LStrip(s) == IF Len(s) > 0 /\ IsSpace(s[1]) THEN LStrip(Tail(s)) ELSE s
RECURSIVE RStrip(_)
RStrip(s) ==
    IF Len(s) > 0 /\ IsSpace(s[Len(s)]) THEN RStrip(SubSeq(s, 1, Len(s) - 1)) ELSE s
Strip(s) == LStrip(RStrip(s))

\* the last n items of a list: lst[-n:]
LastN(lst, n) == IF Len(lst) <= n THEN lst ELSE SubSeq(lst, Len(lst) - n + 1, Len(lst))

\* re.split(r'(?<=[.!?])\s+', s): cut at every run of whitespace that starts
\* right after a sentence end; the run itself is dropped
SentenceEnd(c) == c \in {".", "!", "?"}
SentenceCut(s) ==
    IF \E i \in 2..Len(s) : SentenceEnd(s[i - 1]) /\ IsSpace(s[i])
    THEN CHOOSE i \in 2..Len(s) :
            /\ SentenceEnd(s[i - 1]) /\ IsSpace(s[i])
            /\ \A j \in 2..(i - 1) : ~(SentenceEnd(s[j - 1]) /\ IsSpace(s[j]))
    ELSE 0
RECURSIVE SkipSpace(_, _)
SkipSpace(s, i) == IF i <= Len(s) /\ IsSpace(s[i]) THEN SkipSpace(s, i + 1) ELSE i
RECURSIVE SplitSentences(_)
SplitSentences(s) ==
    LET i == SentenceCut(s)
    IN  IF i = 0 THEN <<s>>
        ELSE <<SubSeq(s, 1, i - 1)>> \o SplitSentences(SubSeq(s, SkipSpace(s, i), Len(s)))

-----------------------------------------------------------------------------
(* TokenCounter *)

\* The encoder is tiktoken's cl100k_base for every model; the model keeps only
\* the length of its encoding, at one character per token ("enc1") and at two
\* characters per token ("enc2").  "fallback" is the estimate count_tokens
\* uses when the encoder cannot be loaded.
Tokenizers == {"enc1", "enc2", "fallback"}

count_tokens(text, tk) ==
    CASE tk = "enc1" -> Len(text)
      [] tk = "enc2" -> (Len(text) + 1) \div 2
      [] OTHER -> Max(1, Len(text) \div FALLBACK_CHARS_PER_TOKEN)

-----------------------------------------------------------------------------
(* ChunkManager *)

\* "chunk_{index}_{md5(content)[:8]}": the hash is kept as the content itself
_generate_chunk_id(text, index) == <<index, text>>

\* the keys of the metadata dict the constructor call of a strategy passes
constructor_metadata(strat) ==
    CASE strat = FUNCTION_BASED -> {"lines_count"}
      [] strat = TOKEN_BASED -> {"start_pos", "end_pos", "estimated_tokens"}
      [] OTHER -> {}

\* metadata holds the keys of the chunk's metadata dict
ChunkContext(text, index, overlap, strat) ==
    [chunk_id |-> _generate_chunk_id(text, index),
     content |-> text,
     chunk_index |-> index,
     total_chunks |-> 0,
     overlap_content |-> overlap,
     metadata |-> constructor_metadata(strat),
     strategy_used |-> strat]

\* What a chunking strategy ends with: the chunk list it returns, or a loop
\* that never ends (hangs = TRUE).
Returned(list) == [hangs |-> FALSE, chunks |-> list]
Hanging == [hangs |-> TRUE, chunks |-> <<>>]

\* the word-boundary search of _token_based_chunking: the first i in
\* range(min(100, end - start)) with content[end - i] a space moves end back by i
SnapToSpace(text, start, end) ==
    LET n == Min(LOOKBACK_CHARS, end - start)
        hit(i) == IsSpace(text[end - i + 1])
    IN  IF \E i \in 0..(n - 1) : hit(i)
        THEN end - (CHOOSE i \in 0..(n - 1) : hit(i) /\ \A j \in 0..(i - 1) : ~hit(j))
        ELSE end

\* the while loop of _token_based_chunking.  An iteration that leaves
\* end <= start repeats for ever: start never reaches len(content) again.
RECURSIVE TokenLoop(_, _, _, _, _)
TokenLoop(text, start, chunk_size_chars, overlap_chars, acc) ==
    IF start >= Len(text) THEN Returned(acc)
    ELSE
        LET end0 == Min(start + chunk_size_chars, Len(text))
            end == IF end0 < Len(text) THEN SnapToSpace(text, start, end0) ELSE end0
            overlap_content ==
                IF start > 0 /\ overlap_chars > 0
                THEN Slice(text, Max(0, start - overlap_chars), start)
                ELSE <<>>
            chunk_content_ == overlap_content \o Slice(text, start, end)
        IN  IF end <= start THEN Hanging
            ELSE TokenLoop(text, end, chunk_size_chars, overlap_chars,
                           Append(acc, ChunkContext(chunk_content_, Len(acc),
                                                    overlap_content, TOKEN_BASED)))

_token_based_chunking(text, tk, max_tokens) ==
    LET total_tokens == count_tokens(text, tk)
        \* chars_per_token = len(content) / max(total_tokens, 1), kept as a fraction
        den == Max(total_tokens, 1)
        chunk_size_chars == IntTrunc(max_tokens * Len(text) * 9, den * 10)
        overlap_chars == IntTrunc(CHUNK_OVERLAP * Len(text), den)
    IN  TokenLoop(text, 0, chunk_size_chars, overlap_chars, <<>>)

\* ' '.join(sentences[-overlap_count:])
_extract_sentence_overlap(sentences, overlap_count) ==
    Join(LastN(sentences, overlap_count), <<" ">>)

\* the for loop of _sentence_based_chunking over sentences[k..]
RECURSIVE SentenceLoop(_, _, _, _, _, _, _)
SentenceLoop(sentences, k, tk, max_tokens, acc, current_chunk, current_tokens) ==
    IF k > Len(sentences)
    THEN Returned(IF Len(current_chunk) > 0
                  THEN Append(acc, ChunkContext(Join(current_chunk, <<" ">>), Len(acc),
                                                <<>>, SENTENCE_BASED))
                  ELSE acc)
    ELSE
        LET sentence == sentences[k]
            sentence_tokens == count_tokens(sentence \o <<" ">>, tk)
        IN  IF sentence_tokens > max_tokens
            THEN \* a sentence over the limit: close the current chunk, split by words
                LET saved == IF Len(current_chunk) > 0
                             THEN Append(acc, ChunkContext(Join(current_chunk, <<" ">>),
                                                           Len(acc), <<>>, SENTENCE_BASED))
                             ELSE acc
                    word_chunks == _token_based_chunking(sentence, tk, max_tokens)
                IN  IF word_chunks.hangs THEN Hanging
                    ELSE SentenceLoop(sentences, k + 1, tk, max_tokens,
                                      saved \o word_chunks.chunks, <<>>, 0)
            ELSE IF current_tokens + sentence_tokens > max_tokens /\ Len(current_chunk) > 0
            THEN \* close the current chunk and carry its last sentence over
                LET overlap == _extract_sentence_overlap(current_chunk, OVERLAP_SENTENCES)
                    saved == Append(acc, ChunkContext(Join(current_chunk, <<" ">>),
                                                      Len(acc), overlap, SENTENCE_BASED))
                IN  IF Len(overlap) > 0
                    THEN SentenceLoop(sentences, k + 1, tk, max_tokens, saved,
                                      <<overlap, sentence>>,
                                      count_tokens(overlap, tk) + sentence_tokens)
                    ELSE SentenceLoop(sentences, k + 1, tk, max_tokens, saved,
                                      <<sentence>>, sentence_tokens)
            ELSE SentenceLoop(sentences, k + 1, tk, max_tokens, acc,
                              Append(current_chunk, sentence),
                              current_tokens + sentence_tokens)

_sentence_based_chunking(text, tk, max_tokens) ==
    SentenceLoop(SplitSentences(text), 1, tk, max_tokens, <<>>, <<>>, 0)

\* the for loop of _semantic_chunking over paragraphs[k..]
RECURSIVE ParagraphLoop(_, _, _, _, _, _, _)
ParagraphLoop(paragraphs, k, tk, max_tokens, acc, current_chunk, current_tokens) ==
    LET close(list) == IF Len(current_chunk) > 0
                       THEN Append(list, ChunkContext(Join(current_chunk, <<"\n", "\n">>),
                                                      Len(list), <<>>, SEMANTIC))
                       ELSE list
    IN  IF k > Len(paragraphs) THEN Returned(close(acc))
        ELSE
            LET paragraph == paragraphs[k]
                paragraph_tokens == count_tokens(paragraph \o <<"\n", "\n">>, tk)
            IN  IF paragraph_tokens > max_tokens
                THEN \* a paragraph over the limit is split by sentences
                    LET sentence_chunks == _sentence_based_chunking(paragraph, tk, max_tokens)
                    IN  IF sentence_chunks.hangs THEN Hanging
                        ELSE ParagraphLoop(paragraphs, k + 1, tk, max_tokens,
                                           close(acc) \o sentence_chunks.chunks, <<>>, 0)
                ELSE IF current_tokens + paragraph_tokens > max_tokens
                        /\ Len(current_chunk) > 0
                THEN ParagraphLoop(paragraphs, k + 1, tk, max_tokens, close(acc),
                                   <<paragraph>>, paragraph_tokens)
                ELSE ParagraphLoop(paragraphs, k + 1, tk, max_tokens, acc,
                                   Append(current_chunk, paragraph),
                                   current_tokens + paragraph_tokens)

_semantic_chunking(text, tk, max_tokens) ==
    ParagraphLoop(Split(text, <<"\n", "\n">>), 1, tk, max_tokens, <<>>, <<>>, 0)

\* re.match on the patterns of code_patterns: a pattern is a sequence of
\* elements <<"lit", text>>, <<"s+">>, <<"s*">> and <<"w+">>
InClass(class, c) == IF class = "s" THEN IsSpace(c) ELSE IsWord(c)
RunEnds(s, p, class, least) ==
    {q \in (p + least)..Len(s) : \A i \in (p + 1)..q : InClass(class, s[i])}
ElemEnds(e, s, p) ==
    CASE e[1] = "lit" -> IF p + Len(e[2]) <= Len(s) /\ SubSeq(s, p + 1, p + Len(e[2])) = e[2]
                         THEN {p + Len(e[2])} ELSE {}
      [] e[1] = "s+" -> RunEnds(s, p, "s", 1)
      [] e[1] = "s*" -> RunEnds(s, p, "s", 0)
      [] OTHER -> RunEnds(s, p, "w", 1)
RECURSIVE MatchFrom(_, _, _, _)
MatchFrom(pattern, k, s, at) ==
    IF k > Len(pattern) THEN at # {}
    ELSE MatchFrom(pattern, k + 1, s, UNION {ElemEnds(pattern[k], s, p) : p \in at})
ReMatch(pattern, s) == MatchFrom(pattern, 1, s, {0})

Lit(text) == <<"lit", text>>
function_start ==
    << <<Lit(<<"d","e","f">>), <<"s+">>, <<"w+">>, <<"s*">>, Lit(<<"(">>)>>,
       <<Lit(<<"f","u","n","c","t","i","o","n">>), <<"s+">>, <<"w+">>, <<"s*">>, Lit(<<"(">>)>>,
       <<Lit(<<"a","s","y","n","c">>), <<"s+">>, Lit(<<"f","u","n","c","t","i","o","n">>),
         <<"s+">>, <<"w+">>, <<"s*">>, Lit(<<"(">>)>>,
       <<<<"w+">>, <<"s*">>, Lit(<<":">>), <<"s*">>,
         Lit(<<"f","u","n","c","t","i","o","n">>), <<"s*">>, Lit(<<"(">>)>>,
       <<Lit(<<"c","l","a","s","s">>), <<"s+">>, <<"w+">>>> >>
block_end == << <<<<"s*">>, Lit(<<"}">>)>> >>

is_function_start(line) == \E i \in DOMAIN function_start : ReMatch(function_start[i], Strip(line))
\* r'^\s*}' or r'^\s*$' on the stripped line
is_block_end(line) ==
    \/ \E i \in DOMAIN block_end : ReMatch(block_end[i], Strip(line))
    \/ Strip(line) = <<>>

\* '\n'.join(lines[-overlap_lines:])
_extract_overlap(lines, overlap_lines) == Join(LastN(lines, overlap_lines), <<"\n">>)

\* the for loop of _function_based_chunking over lines[k..]
RECURSIVE LineLoop(_, _, _, _, _, _, _, _, _)
LineLoop(lines, k, tk, max_tokens, acc, current_chunk, current_tokens, in_function, function_depth) ==
    IF k > Len(lines)
    THEN Returned(IF Len(current_chunk) > 0
                  THEN Append(acc, ChunkContext(Join(current_chunk, <<"\n">>), Len(acc),
                                                <<>>, FUNCTION_BASED))
                  ELSE acc)
    ELSE
        LET line == lines[k]
            line_tokens == count_tokens(line \o <<"\n">>, tk)
            starts == is_function_start(line)
            ends == is_block_end(line)
            depth1 == IF starts THEN function_depth + 1
                      ELSE IF ends /\ in_function THEN function_depth - 1
                      ELSE function_depth
            inside == IF starts THEN TRUE
                      ELSE IF ends /\ in_function /\ depth1 <= 0 THEN FALSE
                      ELSE in_function
            depth == IF ~starts /\ ends /\ in_function /\ depth1 <= 0 THEN 0 ELSE depth1
            should_split ==
                /\ current_tokens + line_tokens > max_tokens
                /\ Len(current_chunk) > 0
                /\ (~inside \/ ends)
            overlap == _extract_overlap(current_chunk, OVERLAP_LINES)
        IN  IF should_split
            THEN LET saved == Append(acc, ChunkContext(Join(current_chunk, <<"\n">>),
                                                       Len(acc), overlap, FUNCTION_BASED))
                 IN  IF Len(overlap) > 0
                     THEN LineLoop(lines, k + 1, tk, max_tokens, saved,
                                   Append(Split(overlap, <<"\n">>), line),
                                   count_tokens(overlap, tk) + line_tokens, inside, depth)
                     ELSE LineLoop(lines, k + 1, tk, max_tokens, saved,
                                   <<line>>, line_tokens, inside, depth)
            ELSE LineLoop(lines, k + 1, tk, max_tokens, acc,
                          Append(current_chunk, line), current_tokens + line_tokens,
                          inside, depth)

_function_based_chunking(text, tk, max_tokens) ==
    LineLoop(Split(text, <<"\n">>), 1, tk, max_tokens, <<>>, <<>>, 0, FALSE, 0)

code_indicators ==
    << <<"d","e","f"," ">>, <<"f","u","n","c","t","i","o","n"," ">>, <<"c","l","a","s","s"," ">>,
       <<"i","m","p","o","r","t"," ">>, <<"f","r","o","m"," ">>, <<"c","o","n","s","t"," ">>,
       <<"l","e","t"," ">>, <<"v","a","r"," ">>, <<"r","e","t","u","r","n"," ">>,
       <<"i","f"," ","(">>, <<"f","o","r"," ","(">>, <<"w","h","i","l","e"," ","(">>,
       <<"=",">">>, <<"{">>, <<"}">>, <<";">>, <<"/","/">>, <<"/","*">>, <<"*","/">>,
       <<"#","i","n","c","l","u","d","e">>, <<"p","a","c","k","a","g","e"," ">>,
       <<"n","a","m","e","s","p","a","c","e"," ">>, <<"u","s","i","n","g"," ">>,
       <<"p","u","b","l","i","c"," ","c","l","a","s","s">>,
       <<"p","r","i","v","a","t","e"," ">>, <<"p","r","o","t","e","c","t","e","d"," ">> >>

\* code_count >= len(code_indicators) * 0.2, in tenths
_is_code(text) ==
    LET code_count == Cardinality({i \in DOMAIN code_indicators :
                                      IsSubstr(code_indicators[i], Lower(text))})
    IN  code_count * 10 >= Len(code_indicators) * 2

structure_indicators ==
    << <<"#"," ">>, <<"#","#"," ">>, <<"#","#","#"," ">>, <<"\n","\n">>,
       <<"-"," ">>, <<"*"," ">>, <<"1","."," ">>, <<"-","-","-">>, <<"=","=","=">> >>

_is_structured_text(text) ==
    \E i \in DOMAIN structure_indicators : IsSubstr(structure_indicators[i], text)

_hybrid_chunking(text, tk, max_tokens) ==
    IF _is_code(text) THEN _function_based_chunking(text, tk, max_tokens)
    ELSE IF _is_structured_text(text) THEN _semantic_chunking(text, tk, max_tokens)
    ELSE _sentence_based_chunking(text, tk, max_tokens)

_apply_chunking_strategy(text, tk, max_tokens, strat) ==
    CASE strat = HYBRID -> _hybrid_chunking(text, tk, max_tokens)
      [] strat = FUNCTION_BASED -> _function_based_chunking(text, tk, max_tokens)
      [] strat = SEMANTIC -> _semantic_chunking(text, tk, max_tokens)
      [] strat = SENTENCE_BASED -> _sentence_based_chunking(text, tk, max_tokens)
      [] OTHER -> _token_based_chunking(text, tk, max_tokens)

\* a post-processing that leaves the chunks as the strategies built them
post_process_unstamped(list) == list

\* stamps every chunk with the length of the list
_post_process_chunks(list) ==
    [i \in DOMAIN list |->
        [list[i] EXCEPT !.total_chunks = Len(list),
                        !.metadata = @ \cup {"total_chunks", "strategy", "chunk_size"}]]

\* max_content_tokens of chunk_content
max_content_tokens(ctx_tokens) ==
    MAX_TOKENS_PER_REQUEST - TOKEN_SAFETY_BUFFER - ctx_tokens - RESPONSE_BUFFER

\* a single-chunk test that is strict
fits_single_chunk_strict(text, ctx_tokens, tk) ==
    count_tokens(text, tk) < max_content_tokens(ctx_tokens)

\* the content fits in a single chunk
fits_single_chunk(text, ctx_tokens, tk) ==
    count_tokens(text, tk) <= max_content_tokens(ctx_tokens)

single_chunk(text) ==
    [ChunkContext(text, 0, <<>>, TOKEN_BASED) EXCEPT
        !.total_chunks = 1, !.metadata = {"original_length", "strategy"}]

chunk_content(text, ctx_tokens, tk, strat) ==
    IF fits_single_chunk(text, ctx_tokens, tk)
    THEN Returned(<<single_chunk(text)>>)
    ELSE LET split == _apply_chunking_strategy(text, tk, max_content_tokens(ctx_tokens), strat)
         IN  IF split.hangs THEN Hanging
             ELSE Returned(_post_process_chunks(split.chunks))

-----------------------------------------------------------------------------
(* ResponseAggregator *)

RECURSIVE Sum(_, _)
\* sum(r.field for r in list)
Sum(list, field) ==
    IF Len(list) = 0 THEN 0 ELSE list[1][field] + Sum(Tail(list), field)

\* sorted([(r, chunks[i]) for i, r in enumerate(responses) if i < len(chunks)],
\*        key=lambda x: x[1].chunk_index): the sort is stable
pairs_in_order(list, chunk_list) ==
    [i \in 1..Min(Len(list), Len(chunk_list)) |-> <<list[i], chunk_list[i]>>]
RECURSIVE StableSort(_)
StableSort(pairs) ==
    IF Len(pairs) = 0 THEN <<>>
    ELSE LET least == CHOOSE i \in DOMAIN pairs :
                        /\ \A j \in DOMAIN pairs : pairs[i][2].chunk_index <= pairs[j][2].chunk_index
                        /\ \A j \in 1..(i - 1) : pairs[j][2].chunk_index # pairs[i][2].chunk_index
         IN  <<pairs[least]>> \o
             StableSort(SubSeq(pairs, 1, least - 1) \o SubSeq(pairs, least + 1, Len(pairs)))
sorted_pairs(list, chunk_list) == StableSort(pairs_in_order(list, chunk_list))

\* the for loop of _merge_code_responses over sorted_pairs[k..]
RECURSIVE CodeMergeLoop(_, _, _, _)
CodeMergeLoop(pairs, k, merged_parts, prev_overlap) ==
    IF k > Len(pairs) THEN merged_parts
    ELSE LET stripped == Strip(pairs[k][1].content)
             text == IF Len(prev_overlap) > 0 /\ StartsWith(stripped, Strip(prev_overlap))
                     THEN LStrip(SubSeq(stripped, Len(Strip(prev_overlap)) + 1, Len(stripped)))
                     ELSE stripped
             lines == Split(text, <<"\n">>)
             next_overlap == IF Len(pairs[k][2].overlap_content) > 0
                             THEN IF Len(lines) >= MERGE_OVERLAP_LINES
                                  THEN Join(LastN(lines, MERGE_OVERLAP_LINES), <<"\n">>)
                                  ELSE text
                             ELSE prev_overlap
         IN  CodeMergeLoop(pairs, k + 1, Append(merged_parts, text), next_overlap)

_merge_code_responses(list, chunk_list) ==
    Join(CodeMergeLoop(sorted_pairs(list, chunk_list), 1, <<>>, <<>>), <<"\n", "\n">>)

\* the stripped contents that are not empty, in the order of the pairs
NonEmptyContents(pairs) ==
    SelectSeq([k \in DOMAIN pairs |-> Strip(pairs[k][1].content)], LAMBDA t : Len(t) > 0)

_merge_semantic_responses(list, chunk_list) ==
    Join(NonEmptyContents(sorted_pairs(list, chunk_list)), <<"\n", "\n">>)

_merge_sequential_responses(list, chunk_list) ==
    Join(NonEmptyContents(sorted_pairs(list, chunk_list)), <<"\n">>)

\* the sentences of all contents, each kept the first time it is seen
RECURSIVE FirstSeen(_, _)
FirstSeen(sentences, kept) ==
    IF Len(sentences) = 0 THEN kept
    ELSE LET sentence == Strip(sentences[1])
         IN  IF Len(sentence) > 0 /\ sentence \notin Range(kept)
             THEN FirstSeen(Tail(sentences), Append(kept, sentence))
             ELSE FirstSeen(Tail(sentences), kept)
RECURSIVE AllSentences(_, _)
AllSentences(pairs, k) ==
    IF k > Len(pairs) THEN <<>>
    ELSE SplitSentences(Strip(pairs[k][1].content)) \o AllSentences(pairs, k + 1)

_merge_text_responses(list, chunk_list) ==
    Join(FirstSeen(AllSentences(sorted_pairs(list, chunk_list), 1), <<>>), <<" ">>)

merge_by(strat, list, chunk_list) ==
    CASE strat = FUNCTION_BASED -> _merge_code_responses(list, chunk_list)
      [] strat = SEMANTIC -> _merge_semantic_responses(list, chunk_list)
      [] strat = SENTENCE_BASED -> _merge_text_responses(list, chunk_list)
      [] OTHER -> _merge_sequential_responses(list, chunk_list)

\* max(strategy_counts, key=strategy_counts.get): the most common strategy_used,
\* the one met first in chunks among equals
predominant_strategy(chunk_list) ==
    LET count(st) == Cardinality({i \in DOMAIN chunk_list : chunk_list[i].strategy_used = st})
        first(st) == CHOOSE i \in DOMAIN chunk_list :
                        /\ chunk_list[i].strategy_used = st
                        /\ \A j \in 1..(i - 1) : chunk_list[j].strategy_used # st
        used == {chunk_list[i].strategy_used : i \in DOMAIN chunk_list}
    IN  CHOOSE st \in used :
            \A other \in used :
                \/ count(st) > count(other)
                \/ count(st) = count(other) /\ first(st) <= first(other)

_merge_adaptive_responses(list, chunk_list) ==
    IF Len(chunk_list) = 0 THEN _merge_sequential_responses(list, chunk_list)
    ELSE merge_by(predominant_strategy(chunk_list), list, chunk_list)

\* merge_strategies.get(original_strategy, _merge_sequential_responses)
merge_strategies(strat, list, chunk_list) ==
    IF strat = HYBRID THEN _merge_adaptive_responses(list, chunk_list)
    ELSE merge_by(strat, list, chunk_list)

successful_responses(list) == SelectSeq(list, LAMBDA r : r.success)

\* a failed_chunks that lists every chunk, the filter on success left out
failed_chunks_unfiltered(list, chunk_list) ==
    [k \in 1..Min(Len(list), Len(chunk_list)) |-> chunk_list[k].chunk_id]

\* [chunks[i].chunk_id for i, r in enumerate(responses) if not r.success and i < len(chunks)]
failed_chunks_of(list, chunk_list) ==
    LET failed == SelectSeq([i \in DOMAIN list |-> i],
                            LAMBDA i : ~list[i].success /\ i <= Len(chunk_list))
    IN  [k \in DOMAIN failed |-> chunk_list[failed[k]].chunk_id]

\* input tokens counted over the successful responses only
total_input_tokens_successful(list) == Sum(successful_responses(list), "input_tokens")

\* the input tokens aggregate_responses reports
total_input_tokens_of(list) == Sum(list, "input_tokens")

AggregatedResponse(text, model, tin, tout, time, count, ok, failed) ==
    [content |-> text, model |-> model, total_input_tokens |-> tin,
     total_output_tokens |-> tout, total_response_time |-> time,
     chunk_count |-> count, success |-> ok, failed_chunks |-> failed]

aggregate_responses(list, chunk_list, original_strategy) ==
    IF Len(list) = 0
    THEN AggregatedResponse(<<>>, "unknown", 0, 0, 0, 0, FALSE, <<>>)
    ELSE IF Len(successful_responses(list)) = 0
    THEN AggregatedResponse(<<>>, list[1].model, Sum(list, "input_tokens"), 0,
                            Sum(list, "response_time"), Len(list), FALSE,
                            failed_chunks_of(list, chunk_list))
    ELSE AggregatedResponse(
            merge_strategies(original_strategy, successful_responses(list), chunk_list),
            list[1].model,
            total_input_tokens_of(list),
            Sum(successful_responses(list), "output_tokens"),
            Sum(list, "response_time"),
            Len(list),
            Len(successful_responses(list)) > 0,
            failed_chunks_of(list, chunk_list))

-----------------------------------------------------------------------------
(* ModelHealthChecker and ModelRouter *)

CODE_GENERATION == "code_generation"
CODE_ANALYSIS == "code_analysis"
TEXT_PROCESSING == "text_processing"
REASONING == "reasoning"
TOOL_CALLING == "tool_calling"
\* Python's None
None == "None"

\* MODEL_CONFIGS as shipped: the models and their priority, in dict order
ShippedConfigs ==
    << [model |-> "mistral-ai/Codestral-2501", priority |-> 1],
       [model |-> "openai/gpt-4.1", priority |-> 2],
       [model |-> "openai/gpt-4o", priority |-> 1],
       [model |-> "cohere/cohere-command-a", priority |-> 3] >>
AllModels == {ShippedConfigs[k].model : k \in DOMAIN ShippedConfigs}

\* ModelRouter.model_capabilities.get(model, [])
model_capabilities(model) ==
    CASE model = "mistral-ai/Codestral-2501" -> {CODE_GENERATION, CODE_ANALYSIS}
      [] model = "openai/gpt-4.1" -> {REASONING, TOOL_CALLING, TEXT_PROCESSING}
      [] model = "openai/gpt-4o" -> {REASONING, CODE_ANALYSIS, TOOL_CALLING}
      [] model = "cohere/cohere-command-a" -> {TEXT_PROCESSING, TOOL_CALLING}
      [] OTHER -> {}

\* capability_map.get(task_type)
capability_map(type) ==
    CASE type = "code_generation" -> CODE_GENERATION
      [] type = "code_analysis" -> CODE_ANALYSIS
      [] type = "text_processing" -> TEXT_PROCESSING
      [] type = "reasoning" -> REASONING
      [] type = "auto" -> None
      [] OTHER -> None

\* a dict without keys
EmptyDict == [m \in {} |-> FALSE]
\* d[key] = value
DictSet(d, key, value) ==
    [m \in DOMAIN d \cup {key} |-> IF m = key THEN value ELSE d[m]]

\* what the probe request of check_model_health can end in: a response with
\* choices, a response without, asyncio.TimeoutError, any other exception
ProbeOutcomes == {"valid", "invalid", "timeout", "error"}

\* ModelHealthChecker.check_model_health(model) at time t, the probe (if one
\* is made) ending in outcome: the answer and the cache after it
check_model_health(model, status, checks, t, outcome) ==
    IF model \in DOMAIN checks /\ t - checks[model] < health_check_interval
    THEN [healthy |-> IF model \in DOMAIN status THEN status[model] ELSE FALSE,
          health_status |-> status,
          last_check |-> checks]
    ELSE [healthy |-> (outcome = "valid"),
          health_status |-> DictSet(status, model, outcome = "valid"),
          last_check |-> DictSet(checks, model, t)]

capability_match(model, required_capability) ==
    required_capability = None \/ required_capability \in model_capabilities(model)

\* a tool_match that any declared capability satisfies
tool_match_any_capability(model, tools) == ~tools \/ model_capabilities(model) # {}

\* a tool_match that forgets the requirement
tool_match_ignored(model, tools) == TRUE

tool_match(model, tools) ==
    ~tools \/ TOOL_CALLING \in model_capabilities(model)

\* candidate_models.sort(key=lambda x: x[1]["priority"]): the sort is stable
RECURSIVE sort_by_priority(_)
sort_by_priority(list) ==
    IF Len(list) = 0 THEN <<>>
    ELSE LET least == CHOOSE i \in DOMAIN list :
                        /\ \A j \in DOMAIN list : list[i].priority <= list[j].priority
                        /\ \A j \in 1..(i - 1) : list[j].priority # list[i].priority
         IN  <<list[least]>> \o
             sort_by_priority(SubSeq(list, 1, least - 1) \o SubSeq(list, least + 1, Len(list)))

\* the candidates left in the order of the configuration
candidates_unsorted(configs, type, tools) ==
    LET matching == SelectSeq(configs, LAMBDA c :
                        /\ capability_match(c.model, capability_map(type))
                        /\ tool_match(c.model, tools))
    IN  IF matching = <<>> THEN configs ELSE matching

\* candidate_models of select_model, once filtered, fallen back and sorted
candidate_models(configs, type, tools) ==
    LET matching == SelectSeq(configs, LAMBDA c :
                        /\ capability_match(c.model, capability_map(type))
                        /\ tool_match(c.model, tools))
    IN  sort_by_priority(IF matching = <<>> THEN configs ELSE matching)

\* the loop "for model, config in candidate_models" from position k on, the
\* probe of model m ending in probe[m]
RECURSIVE FirstHealthy(_, _, _, _, _, _, _)
FirstHealthy(cands, k, status, checks, t, probe, seen) ==
    IF k > Len(cands)
    THEN [found |-> FALSE, model |-> "", health_status |-> status,
          last_check |-> checks, walked |-> seen]
    ELSE LET model == cands[k].model
             h == check_model_health(model, status, checks, t, probe[model])
         IN  IF h.healthy
             THEN [found |-> TRUE, model |-> model, health_status |-> h.health_status,
                   last_check |-> h.last_check, walked |-> Append(seen, model)]
             ELSE FirstHealthy(cands, k + 1, h.health_status, h.last_check, t, probe,
                               Append(seen, model))

\* ModelRouter.select_model(task_type, content_length, requires_tools)
select_model(configs, type, tools, status, checks, t, probe) ==
    LET cands == candidate_models(configs, type, tools)
        walk == FirstHealthy(cands, 1, status, checks, t, probe, <<>>)
        out(pc, model) == [pc |-> pc, model |-> model,
                           health_status |-> walk.health_status,
                           last_check |-> walk.last_check, walked |-> walk.walked]
    IN  IF walk.found THEN out("returned", walk.model)
        ELSE IF Len(cands) > 0 THEN out("returned", cands[1].model)
        \* next(iter(MODEL_CONFIGS.keys())): StopIteration on an empty dict
        ELSE IF Len(configs) > 0 THEN out("returned", configs[1].model)
        ELSE out("raised", "")

-----------------------------------------------------------------------------
(* AIModelService._make_single_request *)

\* the max_retries argument: an int, or a value that range() does not take
IntArg(n) == [is_int |-> TRUE, n |-> n]
NotAnInt == [is_int |-> FALSE, n |-> 0]

\* str(n), for the small numbers the model meets; a text made by an f-string
\* is the sequence of its parts, and the empty text is <<>>
Str(n) == <<"0", "1", "2", "3", "4", "5", "6", "7", "8", "9">>[n + 1]

\* 2 ** n
RECURSIVE Pow2(_)
Pow2(n) == IF n = 0 THEN 1 ELSE 2 * Pow2(n - 1)

\* self.clients after initialize(): one client per shipped model
Clients == AllModels

SystemMessage(text) == [role |-> "system", content |-> text]
UserMessage(text) == [role |-> "user", content |-> text]

\* the messages of one attempt; chunk.metadata["context"] is held as its key
request_messages(chunk) ==
    (IF "context" \in chunk.metadata THEN <<SystemMessage(<<"context">>)>> ELSE <<>>)
        \o <<UserMessage(chunk.content)>>

\* How the backend call of an attempt can end: a response with or without
\* choices, asyncio.TimeoutError, HttpResponseError with a status code,
\* ServiceRequestError (it has no status code: 0), any other exception with
\* or without a message.
BackendOutcome(kind, status_code, message) ==
    [kind |-> kind, status_code |-> status_code, message |-> message]
AttemptOutcomes ==
    { BackendOutcome("response", 0, <<"r">>),
      BackendOutcome("empty_response", 0, <<>>),
      BackendOutcome("TimeoutError", 0, <<>>),
      BackendOutcome("HttpResponseError", RATE_LIMIT_STATUS, <<"Too Many Requests">>),
      BackendOutcome("HttpResponseError", RATE_LIMIT_STATUS + 1, <<"Server Error">>),
      BackendOutcome("ServiceRequestError", 0, <<"connection failed">>),
      BackendOutcome("Exception", 0, <<"boom">>),
      BackendOutcome("Exception", 0, <<>>) }

\* the attempt returns a ModelResponse
completes(o) == o.kind = "response"

\* last_error as the except clause of the outcome sets it
attempt_error(o) ==
    CASE o.kind = "TimeoutError" -> <<"Request timeout after 120s">>
      [] o.kind \in {"HttpResponseError", "ServiceRequestError"} ->
            <<"Azure AI error:">> \o o.message
      [] o.kind = "empty_response" -> <<"Empty response from model">>
      [] OTHER -> o.message

\* hasattr(e, 'status_code') and e.status_code == 429
is_rate_limit(o) ==
    /\ o.kind \in {"HttpResponseError", "ServiceRequestError"}
    /\ o.status_code = RATE_LIMIT_STATUS

\* a loop that makes one attempt too many
more_attempts_inclusive(k, n) == k <= n

\* for attempt in range(max_retries): is there an attempt number k
more_attempts(k, n) == k < n

\* if attempt < max_retries - 1
waits_before_retry(k, n) == k < n - 1

\* an asyncio.sleep(seconds) after attempt number k (from 0)
Sleep(seconds, k, backoff) == [seconds |-> seconds, after_attempt |-> k, backoff |-> backoff]

\* time.time() - start_time: the backend calls take no time, the sleeps do
RECURSIVE Elapsed(_)
Elapsed(sleeps) ==
    IF sleeps = <<>> THEN 0 ELSE Head(sleeps).seconds + Elapsed(Tail(sleeps))

\* the ModelResponse of an attempt that got a response with choices
success_response(chunk, model, k, o, sleeps) ==
    [content |-> o.message, model |-> model, input_tokens |-> 1, output_tokens |-> 2,
     total_tokens |-> 3, response_time |-> Elapsed(sleeps), success |-> TRUE,
     chunk_id |-> chunk.chunk_id, error |-> <<>>,
     metadata |-> [attempt |-> k + 1, chunk_index |-> chunk.chunk_index,
                   strategy |-> chunk.strategy_used]]

\* the ModelResponse after the loop: "All retries failed"
failure_response(chunk, model, n, error, sleeps) ==
    [content |-> <<>>, model |-> model, input_tokens |-> 0, output_tokens |-> 0,
     total_tokens |-> 0, response_time |-> Elapsed(sleeps), success |-> FALSE,
     chunk_id |-> chunk.chunk_id,
     error |-> <<"All", Str(n), "attempts failed. Last error:">> \o error,
     metadata |-> [max_retries_exceeded |-> TRUE]]

\* range(max_retries) on a value that is not an int
range_type_error ==
    [exception |-> "TypeError",
     message |-> <<"'NoneType' object cannot be interpreted as an integer">>]

-----------------------------------------------------------------------------
(* AIModelService._process_chunks_concurrently *)

\* "Limit concurrent requests to avoid overwhelming the API"
MAX_CONCURRENT == 5

\* max_concurrent = min(len(chunks), 5)
max_concurrent(list) == Min(Len(list), MAX_CONCURRENT)

\* a semaphore that keeps the slot of a dispatch that has ended
release_skipped(sem) == sem

\* "async with semaphore" is left, by a return or by an exception: release()
release(sem) == sem + 1

\* a semaphore that lets every task in
slot_free_unbounded(value) == TRUE

\* async with semaphore: acquire() goes on without waiting when the value is
\* positive
slot_free(value) == value > 0

\* a gather that hands the first exception of a task to its caller
return_exceptions_off == FALSE

\* asyncio.gather(*tasks, return_exceptions=True)
return_exceptions == TRUE

\* where the task of a position is: "created", "running" (in an attempt of
\* _make_single_request), "backoff" (in its sleep between attempts), "done";
\* the attempt number; how its last attempt ended
Task(pc, k, last) == [pc |-> pc, attempt |-> k, last |-> last]

\* the sleeps of a dispatch that is in attempt number k after k timeouts
linear_sleeps(k) == [j \in 1..k |-> Sleep(j, j - 1, "linear")]

\* isinstance(response, Exception)
IsException(r) == "exception" \in DOMAIN r

\* an error text that drops the message
exception_text_dropped(e) == <<>>

\* str(e)
exception_text(e) == e.message

\* the ModelResponse built for the exception at position i
error_response(list, model, i, e) ==
    [content |-> <<>>, model |-> model, input_tokens |-> 0, output_tokens |-> 0,
     total_tokens |-> 0, response_time |-> 0, success |-> FALSE,
     chunk_id |-> list[i].chunk_id, error |-> exception_text(e),
     metadata |-> EmptyDict]

\* "Convert exceptions to error responses"
convert_exceptions(results, list, model) ==
    [i \in DOMAIN results |->
        IF IsException(results[i]) THEN error_response(list, model, i, results[i])
        ELSE results[i]]

-----------------------------------------------------------------------------
(* AIModelService.generate_response *)

\* the exception of "await self.router.select_model(...)" when the coroutine
\* ends in StopIteration
select_model_error ==
    [exception |-> "RuntimeError", message |-> <<"coroutine raised StopIteration">>]

\* the exception classes met, all of them subclasses of Exception
ExceptionClasses == {"RuntimeError", "TypeError", "ValueError"}

\* a handler for ValueError only
except_ValueError(e) == e.exception = "ValueError"

\* except Exception as e
except_Exception(e) == e.exception \in ExceptionClasses

\* model or "unknown"
model_or_unknown(model) == IF model = "" THEN "unknown" ELSE model

\* the error_response of the except clause; chunk_id is left at None
catch_all_response(model, e) ==
    [content |-> <<>>, model |-> model_or_unknown(model), input_tokens |-> 0,
     output_tokens |-> 0, total_tokens |-> 0, response_time |-> 0, success |-> FALSE,
     chunk_id |-> <<>>, error |-> exception_text(e), metadata |-> EmptyDict]

\* ModelRouter.update_usage_stats(model, response) on the dict stats
NoUsage == [total_requests |-> 0, total_tokens |-> 0, total_time |-> 0,
            success_count |-> 0, error_count |-> 0]
update_usage_stats(stats, model, r) ==
    LET old == IF model \in DOMAIN stats THEN stats[model] ELSE NoUsage
    IN  DictSet(stats, model,
                [total_requests |-> old.total_requests + 1,
                 total_tokens |-> old.total_tokens + r.total_tokens,
                 total_time |-> old.total_time + r.response_time,
                 success_count |-> old.success_count + (IF r.success THEN 1 ELSE 0),
                 error_count |-> old.error_count + (IF r.success THEN 0 ELSE 1)])

-----------------------------------------------------------------------------
(* ModelHealthChecker.check_model_health, from its start to its return *)

\* How the probe of a call can end: the request returns a response with
\* choices ("valid"), with an empty list of choices ("no_choices") or a falsy
\* response such as None ("none"), or it raises asyncio.TimeoutError
\* ("timeout"), an Azure error ("azure_error") or another exception ("error")
ProbeEnds == {"valid", "no_choices", "none", "timeout", "azure_error", "error"}

\* is_healthy = (response and hasattr(response, 'choices') and
\* len(response.choices) > 0): Python's "and" gives its first falsy operand,
\* so a falsy response is itself the value
is_healthy(outcome) ==
    CASE outcome = "valid" -> "True"
      [] outcome = "none" -> "None"
      [] OTHER -> "False"

\* the value a call that made its probe stores and returns: is_healthy, or the
\* False of the except clauses
probe_value(outcome) ==
    IF outcome \in {"valid", "no_choices", "none"} THEN is_healthy(outcome) ELSE "False"

\* a cache whose entry is still valid at the age of the interval
cache_valid_inclusive(checks, model, t) ==
    model \in DOMAIN checks /\ t - checks[model] <= health_check_interval

\* model in self.last_check and
\* current_time - self.last_check[model] < self.health_check_interval
cache_valid(checks, model, t) ==
    model \in DOMAIN checks /\ t - checks[model] < health_check_interval

\* a record stamped with the time at which the probe ended
recorded_time_at_end(call, t) == t

\* self.last_check[model] = current_time: the time read when the call started
recorded_time(call, t) == call.current_time

\* self.health_status.get(model, False)
status_get(status, model) == IF model \in DOMAIN status THEN status[model] ELSE "False"

\* a check_model_health call: its model, its current_time, where it is, how
\* its probe ended ("cached": no probe, "no_client": _get_client raised) and
\* the value it returned
HealthCall(model, t, pc, outcome, returned) ==
    [model |-> model, current_time |-> t, pc |-> pc, outcome |-> outcome,
     returned |-> returned]

-----------------------------------------------------------------------------
(* The inputs of a chunk_content call *)

Alphabet == {"a", " ", ".", "\n"}
ShortTexts == UNION {[1..n -> Alphabet] : n \in 0..MaxLen}

\* longer inputs: sentences, paragraphs, and code
SampleTexts ==
    { <<"a", ".", " ", "a", ".", " ", "a", "a", "a", "a">>,
      <<"a", ".", " ", "b", ".", " ", "c", ".">>,
      <<"a", "a", "\n", "\n", "b", ".", " ", "c", "c", "c", "\n", "\n", "d">>,
      <<"a", "a", "a", "a", "a", "a", "a", "a">>,
      <<"x", "=", "1", "\n", "y", "=", "2", "\n", "z", "=", "3">>,
      <<"d", "e", "f", " ", "f", "(", ")", "{", "\n", "/", "/", ";", "\n", "}", "\n",
        "/", "*", "x", "*", "/">> }

Texts == ShortTexts \cup SampleTexts

\* the context's token count leaves MaxAvail .. -MaxDeficit tokens for the content
ContextTokens ==
    {MAX_TOKENS_PER_REQUEST - TOKEN_SAFETY_BUFFER - RESPONSE_BUFFER - a :
        a \in (-MaxDeficit)..MaxAvail}

InitChunk ==
    /\ content \in Texts
    /\ context_tokens \in ContextTokens
    /\ strategy \in ChunkStrategy
    /\ tokenizer \in Tokenizers
    /\ chunk_pc = "call"
    /\ chunks = <<>>

\* ChunkManager.chunk_content(content, context, model, strategy)
ChunkContent ==
    /\ chunk_pc = "call"
    /\ LET out == chunk_content(content, context_tokens, tokenizer, strategy)
       IN  /\ chunk_pc' = IF out.hangs THEN "hangs" ELSE "returned"
           /\ chunks' = out.chunks
    /\ UNCHANGED <<content, context_tokens, strategy, tokenizer>>
    /\ UNCHANGED aggVars
    /\ UNCHANGED routerVars
    /\ UNCHANGED requestVars
    /\ UNCHANGED dispatchVars
    /\ UNCHANGED generateVars
    /\ UNCHANGED healthVars

\* a chunk_content call on its own: no request is being dispatched
Init ==
    /\ InitChunk
    /\ agg_strategy = HYBRID
    /\ agg_chunks = <<>>
    /\ responses = <<>>
    /\ agg_pc = "idle"
    /\ merged_pairs = <<>>
    /\ aggregated = <<>>
    /\ MODEL_CONFIGS = ShippedConfigs
    /\ health_status = EmptyDict
    /\ last_check = EmptyDict
    /\ now = 0
    /\ calls = 0
    /\ task_type = "auto"
    /\ requires_tools = FALSE
    /\ select_pc = "idle"
    /\ selected = ""
    /\ walked = <<>>
    /\ health_reports = EmptyDict
    /\ req_chunk = <<>>
    /\ req_model = ""
    /\ max_retries = IntArg(0)
    /\ req_pc = "idle"
    /\ attempt = 0
    /\ last_error = <<>>
    /\ outcomes = <<>>
    /\ sent = <<>>
    /\ waits = <<>>
    /\ response = <<>>
    /\ tasks = <<>>
    /\ semaphore = 0
    /\ gathered = <<>>
    /\ final_responses = <<>>
    /\ disp_pc = "idle"
    /\ gen_pc = "idle"
    /\ gen_result = <<>>
    /\ usage_stats = EmptyDict
    /\ hc_status = EmptyDict
    /\ hc_last_check = EmptyDict
    /\ hc_time = 0
    /\ hc_calls = <<>>
Next == ChunkContent
Spec == Init /\ [][Next]_vars

-----------------------------------------------------------------------------
(* A multi-chunk request: generate_response hands the chunks of chunk_content
   to _process_chunks_concurrently and the responses to aggregate_responses *)

\* what chunk_content returns for the longer inputs, when it is not one chunk
ChunkedRequests ==
    LET requests == {<<st, chunk_content(t, c, tk, st)>> :
                     t \in SampleTexts, c \in ContextTokens, tk \in Tokenizers,
                     st \in ChunkStrategy}
    IN  {x \in requests : ~x[2].hangs /\ Len(x[2].chunks) # 1 /\ Len(x[2].chunks) <= MaxChunks}

DigitOf == <<"1", "2", "3", "4", "5", "6", "7", "8", "9">>

\* The ModelResponse a dispatch of the chunk at position i ends with.  A
\* success is what _make_single_request builds from the backend's answer; the
\* answer's text names the position.  A failure carries no content.
\* An "echo" answers with the text of the chunk itself.
ResponseKinds == {"ok", "ok_padded", "echo", "failed", "failed_counted"}
ModelResponse(kind, i, chunk) ==
    CASE kind = "echo" ->
            [content |-> chunk.content, model |-> "m", input_tokens |-> 1,
             output_tokens |-> 2, response_time |-> 1, success |-> TRUE,
             chunk_id |-> chunk.chunk_id, metadata |-> [chunk_index |-> chunk.chunk_index]]
      [] kind = "ok" ->
            [content |-> <<"r", DigitOf[i]>>, model |-> "m", input_tokens |-> 1,
             output_tokens |-> 2, response_time |-> 1, success |-> TRUE,
             chunk_id |-> chunk.chunk_id, metadata |-> [chunk_index |-> chunk.chunk_index]]
      [] kind = "ok_padded" ->
            [content |-> <<" ", "r", DigitOf[i], ".", "\n">>, model |-> "m", input_tokens |-> 2,
             output_tokens |-> 3, response_time |-> 2, success |-> TRUE,
             chunk_id |-> chunk.chunk_id, metadata |-> [chunk_index |-> chunk.chunk_index]]
      [] kind = "failed" ->
            [content |-> <<>>, model |-> "m", input_tokens |-> 0,
             output_tokens |-> 0, response_time |-> 1, success |-> FALSE,
             chunk_id |-> chunk.chunk_id, metadata |-> [max_retries_exceeded |-> TRUE]]
      [] OTHER ->
            [content |-> <<>>, model |-> "m", input_tokens |-> 3,
             output_tokens |-> 5, response_time |-> 2, success |-> FALSE,
             chunk_id |-> chunk.chunk_id, metadata |-> [max_retries_exceeded |-> TRUE]]

\* a position whose dispatch has not ended
Pending == [pending |-> TRUE]
IsPending(r) == "pending" \in DOMAIN r

InitAggregate ==
    /\ content = <<>>
    /\ context_tokens = 0
    /\ strategy = HYBRID
    /\ tokenizer = "enc1"
    /\ chunk_pc = "idle"
    /\ chunks = <<>>
    /\ \E x \in ChunkedRequests :
          /\ agg_strategy = x[1]
          /\ agg_chunks = x[2].chunks
          /\ responses = [i \in DOMAIN x[2].chunks |-> Pending]
    /\ agg_pc = "dispatch"
    /\ merged_pairs = <<>>
    /\ aggregated = <<>>
    /\ MODEL_CONFIGS = ShippedConfigs
    /\ health_status = EmptyDict
    /\ last_check = EmptyDict
    /\ now = 0
    /\ calls = 0
    /\ task_type = "auto"
    /\ requires_tools = FALSE
    /\ select_pc = "idle"
    /\ selected = ""
    /\ walked = <<>>
    /\ health_reports = EmptyDict
    /\ req_chunk = <<>>
    /\ req_model = ""
    /\ max_retries = IntArg(0)
    /\ req_pc = "idle"
    /\ attempt = 0
    /\ last_error = <<>>
    /\ outcomes = <<>>
    /\ sent = <<>>
    /\ waits = <<>>
    /\ response = <<>>
    /\ tasks = <<>>
    /\ semaphore = 0
    /\ gathered = <<>>
    /\ final_responses = <<>>
    /\ disp_pc = "idle"
    /\ gen_pc = "idle"
    /\ gen_result = <<>>
    /\ usage_stats = EmptyDict
    /\ hc_status = EmptyDict
    /\ hc_last_check = EmptyDict
    /\ hc_time = 0
    /\ hc_calls = <<>>

\* the dispatch of the chunk at position i ends: asyncio.gather keeps its
\* result at position i, whatever the order in which the dispatches end
Complete(i, kind) ==
    /\ agg_pc = "dispatch"
    /\ IsPending(responses[i])
    /\ responses' = [responses EXCEPT ![i] = ModelResponse(kind, i, agg_chunks[i])]
    /\ UNCHANGED <<agg_strategy, agg_chunks, agg_pc, merged_pairs, aggregated>>
    /\ UNCHANGED chunkVars
    /\ UNCHANGED routerVars
    /\ UNCHANGED requestVars
    /\ UNCHANGED dispatchVars
    /\ UNCHANGED generateVars
    /\ UNCHANGED healthVars

\* all dispatches have ended: aggregate_responses(chunk_responses, chunks, chunking_strategy)
Aggregate ==
    /\ agg_pc = "dispatch"
    /\ \A i \in DOMAIN responses : ~IsPending(responses[i])
    /\ aggregated' = aggregate_responses(responses, agg_chunks, agg_strategy)
    /\ merged_pairs' = sorted_pairs(successful_responses(responses), agg_chunks)
    /\ agg_pc' = "done"
    /\ UNCHANGED <<agg_strategy, agg_chunks, responses>>
    /\ UNCHANGED chunkVars
    /\ UNCHANGED routerVars
    /\ UNCHANGED requestVars
    /\ UNCHANGED dispatchVars
    /\ UNCHANGED generateVars
    /\ UNCHANGED healthVars

NextAggregate ==
    \/ \E i \in DOMAIN responses, kind \in ResponseKinds : Complete(i, kind)
    \/ Aggregate
SpecAggregate == InitAggregate /\ [][NextAggregate]_vars

-----------------------------------------------------------------------------
(* A router: select_model calls on one ModelRouter as time passes *)

\* the configurations followed: the shipped models, any of them left out
Configurations ==
    {SelectSeq(ShippedConfigs, LAMBDA c : c.model \in kept) : kept \in SUBSET AllModels}
TaskTypes ==
    {"code_generation", "code_analysis", "text_processing", "reasoning", "auto", "summarize"}
\* the clock advances by a health_check_interval
TickSeconds == health_check_interval

InitRouter ==
    /\ content = <<>>
    /\ context_tokens = 0
    /\ strategy = HYBRID
    /\ tokenizer = "enc1"
    /\ chunk_pc = "idle"
    /\ chunks = <<>>
    /\ agg_strategy = HYBRID
    /\ agg_chunks = <<>>
    /\ responses = <<>>
    /\ agg_pc = "idle"
    /\ merged_pairs = <<>>
    /\ aggregated = <<>>
    /\ MODEL_CONFIGS \in Configurations
    /\ health_status = EmptyDict
    /\ last_check = EmptyDict
    /\ now = 0
    /\ calls = 0
    /\ task_type = "auto"
    /\ requires_tools = FALSE
    /\ select_pc = "idle"
    /\ selected = ""
    /\ walked = <<>>
    /\ health_reports = EmptyDict
    /\ req_chunk = <<>>
    /\ req_model = ""
    /\ max_retries = IntArg(0)
    /\ req_pc = "idle"
    /\ attempt = 0
    /\ last_error = <<>>
    /\ outcomes = <<>>
    /\ sent = <<>>
    /\ waits = <<>>
    /\ response = <<>>
    /\ tasks = <<>>
    /\ semaphore = 0
    /\ gathered = <<>>
    /\ final_responses = <<>>
    /\ disp_pc = "idle"
    /\ gen_pc = "idle"
    /\ gen_result = <<>>
    /\ usage_stats = EmptyDict
    /\ hc_status = EmptyDict
    /\ hc_last_check = EmptyDict
    /\ hc_time = 0
    /\ hc_calls = <<>>

\* MODEL_CONFIGS.keys()
Configured == {MODEL_CONFIGS[k].model : k \in DOMAIN MODEL_CONFIGS}

\* the models select_model(type, _, tools) may ask the health checker about
CandidateNames(type, tools) ==
    {c.model : c \in Range(candidate_models(MODEL_CONFIGS, type, tools))}

\* await select_model(type, _, tools), the probes of the models in up giving
\* a valid response and the probes of the others raising: the three ways a
\* probe fails leave check_model_health in the same state
SelectModel(type, tools, up) ==
    /\ calls < MaxCalls
    /\ LET probe == [m \in AllModels |-> IF m \in up THEN "valid" ELSE "error"]
       IN  \E out \in {select_model(MODEL_CONFIGS, type, tools, health_status,
                                     last_check, now, probe)} :
           /\ select_pc' = out.pc
           /\ selected' = out.model
           /\ walked' = out.walked
           /\ health_status' = out.health_status
           /\ last_check' = out.last_check
           /\ health_reports' =
                 [m \in CandidateNames(type, tools) |->
                     check_model_health(m, health_status, last_check, now, probe[m]).healthy]
    /\ task_type' = type
    /\ requires_tools' = tools
    /\ calls' = calls + 1
    /\ UNCHANGED <<MODEL_CONFIGS, now>>
    /\ UNCHANGED chunkVars
    /\ UNCHANGED aggVars
    /\ UNCHANGED requestVars
    /\ UNCHANGED dispatchVars
    /\ UNCHANGED generateVars
    /\ UNCHANGED healthVars

\* time passes
Tick ==
    /\ now < MaxTicks * TickSeconds
    /\ now' = now + TickSeconds
    /\ UNCHANGED <<MODEL_CONFIGS, health_status, last_check, calls, task_type,
                   requires_tools, select_pc, selected, walked, health_reports>>
    /\ UNCHANGED chunkVars
    /\ UNCHANGED aggVars
    /\ UNCHANGED requestVars
    /\ UNCHANGED dispatchVars
    /\ UNCHANGED generateVars
    /\ UNCHANGED healthVars

NextRouter ==
    \/ \E type \in TaskTypes, tools \in BOOLEAN :
          \E up \in SUBSET CandidateNames(type, tools) : SelectModel(type, tools, up)
    \/ Tick
SpecRouter == InitRouter /\ [][NextRouter]_vars

-----------------------------------------------------------------------------
(* One dispatch: _make_single_request on a chunk of a chunked request *)

\* the requests whose chunks are dispatched: one short and one long prompt,
\* with a context that leaves MaxAvail tokens
RequestTexts ==
    { <<"a", ".">>,
      <<"a", ".", " ", "a", ".", " ", "a", "a", "a", "a">> }
RequestContext == MAX_TOKENS_PER_REQUEST - TOKEN_SAFETY_BUFFER - RESPONSE_BUFFER - MaxAvail
RequestModels == {"openai/gpt-4o", "other/model"}
RetryArgs == {IntArg(n) : n \in 0..MaxRetries} \cup {NotAnInt}

InitRequest ==
    /\ content \in RequestTexts
    /\ context_tokens = RequestContext
    /\ strategy \in ChunkStrategy
    /\ tokenizer = "enc1"
    /\ chunk_pc = "returned"
    /\ chunks = chunk_content(content, context_tokens, tokenizer, strategy).chunks
    /\ agg_strategy = HYBRID
    /\ agg_chunks = <<>>
    /\ responses = <<>>
    /\ agg_pc = "idle"
    /\ merged_pairs = <<>>
    /\ aggregated = <<>>
    /\ MODEL_CONFIGS = ShippedConfigs
    /\ health_status = EmptyDict
    /\ last_check = EmptyDict
    /\ now = 0
    /\ calls = 0
    /\ task_type = "auto"
    /\ requires_tools = FALSE
    /\ select_pc = "idle"
    /\ selected = ""
    /\ walked = <<>>
    /\ health_reports = EmptyDict
    /\ req_chunk \in Range(chunks)
    /\ req_model \in RequestModels
    /\ max_retries \in RetryArgs
    /\ req_pc = "call"
    /\ attempt = 0
    /\ last_error = <<"None">>
    /\ outcomes = <<>>
    /\ sent = <<>>
    /\ waits = <<>>
    /\ response = <<>>
    /\ tasks = <<>>
    /\ semaphore = 0
    /\ gathered = <<>>
    /\ final_responses = <<>>
    /\ disp_pc = "idle"
    /\ gen_pc = "idle"
    /\ gen_result = <<>>
    /\ usage_stats = EmptyDict
    /\ hc_status = EmptyDict
    /\ hc_last_check = EmptyDict
    /\ hc_time = 0
    /\ hc_calls = <<>>

\* start_time = time.time(); last_error = None; for attempt in range(max_retries)
StartRequest ==
    /\ req_pc = "call"
    /\ IF max_retries.is_int
       THEN req_pc' = "loop" /\ response' = response
       ELSE req_pc' = "raised" /\ response' = range_type_error
    /\ UNCHANGED <<req_chunk, req_model, max_retries, attempt, last_error, outcomes,
                   sent, waits>>
    /\ UNCHANGED <<chunkVars, aggVars, routerVars, dispatchVars, generateVars>>
    /\ UNCHANGED healthVars

\* an attempt for a model without client: ValueError before a request is built
AttemptWithoutClient ==
    /\ req_pc = "loop"
    /\ more_attempts(attempt, max_retries.n)
    /\ req_model \notin Clients
    /\ last_error' = <<"No client available for model", req_model>>
    /\ outcomes' = Append(outcomes, BackendOutcome("no_client", 0, last_error'))
    /\ req_pc' = "backoff"
    /\ UNCHANGED <<req_chunk, req_model, max_retries, attempt, sent, waits, response>>
    /\ UNCHANGED <<chunkVars, aggVars, routerVars, dispatchVars, generateVars>>
    /\ UNCHANGED healthVars

\* an attempt whose backend call ends in o
Attempt(o) ==
    /\ req_pc = "loop"
    /\ more_attempts(attempt, max_retries.n)
    /\ req_model \in Clients
    /\ sent' = Append(sent, request_messages(req_chunk))
    /\ outcomes' = Append(outcomes, o)
    /\ IF completes(o)
       THEN /\ response' = success_response(req_chunk, req_model, attempt, o, waits)
            /\ req_pc' = "returned"
            /\ last_error' = last_error
       ELSE /\ last_error' = attempt_error(o)
            /\ req_pc' = IF is_rate_limit(o) THEN "rate_limit_sleep" ELSE "backoff"
            /\ response' = response
    /\ UNCHANGED <<req_chunk, req_model, max_retries, attempt, waits>>
    /\ UNCHANGED <<chunkVars, aggVars, routerVars, dispatchVars, generateVars>>
    /\ UNCHANGED healthVars

\* await asyncio.sleep(2 ** attempt) in the except clause of a rate limit
RateLimitSleep ==
    /\ req_pc = "rate_limit_sleep"
    /\ waits' = Append(waits, Sleep(Pow2(attempt), attempt, "exponential"))
    /\ req_pc' = "backoff"
    /\ UNCHANGED <<req_chunk, req_model, max_retries, attempt, last_error, outcomes,
                   sent, response>>
    /\ UNCHANGED <<chunkVars, aggVars, routerVars, dispatchVars, generateVars>>
    /\ UNCHANGED healthVars

\* the end of the loop body: "Wait before retry (except for last attempt)"
Backoff ==
    /\ req_pc = "backoff"
    /\ waits' = IF waits_before_retry(attempt, max_retries.n)
                THEN Append(waits, Sleep(attempt + 1, attempt, "linear"))
                ELSE waits
    /\ attempt' = attempt + 1
    /\ req_pc' = "loop"
    /\ UNCHANGED <<req_chunk, req_model, max_retries, last_error, outcomes, sent, response>>
    /\ UNCHANGED <<chunkVars, aggVars, routerVars, dispatchVars, generateVars>>
    /\ UNCHANGED healthVars

\* after the loop: "All retries failed"
AllRetriesFailed ==
    /\ req_pc = "loop"
    /\ ~more_attempts(attempt, max_retries.n)
    /\ response' = failure_response(req_chunk, req_model, max_retries.n, last_error, waits)
    /\ req_pc' = "returned"
    /\ UNCHANGED <<req_chunk, req_model, max_retries, attempt, last_error, outcomes,
                   sent, waits>>
    /\ UNCHANGED <<chunkVars, aggVars, routerVars, dispatchVars, generateVars>>
    /\ UNCHANGED healthVars

NextRequest ==
    \/ StartRequest
    \/ AttemptWithoutClient
    \/ \E o \in AttemptOutcomes : Attempt(o)
    \/ RateLimitSleep
    \/ Backoff
    \/ AllRetriesFailed
SpecRequest == InitRequest /\ [][NextRequest]_vars

-----------------------------------------------------------------------------
(* A concurrent dispatch: _process_chunks_concurrently on the chunks of a
   request, each task running _make_single_request under the semaphore *)

\* prompts without white space, split by tokens into one chunk per character:
\* fewer chunks than the limit, and more
DispatchTexts ==
    {[i \in 1..n |-> "a"] : n \in {MAX_CONCURRENT - 2, MAX_CONCURRENT + MaxWaiting}}
DispatchContext == MAX_TOKENS_PER_REQUEST - TOKEN_SAFETY_BUFFER - RESPONSE_BUFFER - 2
DispatchRetryArgs == {IntArg(2), NotAnInt}
DispatchOutcomes == {o \in AttemptOutcomes : o.kind \in {"response", "TimeoutError"}}

InitDispatch ==
    /\ content \in DispatchTexts
    /\ context_tokens = DispatchContext
    /\ strategy = TOKEN_BASED
    /\ tokenizer = "enc1"
    /\ chunk_pc = "returned"
    /\ chunks = chunk_content(content, context_tokens, tokenizer, strategy).chunks
    /\ agg_strategy = HYBRID
    /\ agg_chunks = <<>>
    /\ responses = <<>>
    /\ agg_pc = "idle"
    /\ merged_pairs = <<>>
    /\ aggregated = <<>>
    /\ MODEL_CONFIGS = ShippedConfigs
    /\ health_status = EmptyDict
    /\ last_check = EmptyDict
    /\ now = 0
    /\ calls = 0
    /\ task_type = "auto"
    /\ requires_tools = FALSE
    /\ select_pc = "idle"
    /\ selected = ""
    /\ walked = <<>>
    /\ health_reports = EmptyDict
    /\ req_chunk = <<>>
    /\ req_model = "openai/gpt-4o"
    /\ max_retries \in DispatchRetryArgs
    /\ req_pc = "idle"
    /\ attempt = 0
    /\ last_error = <<>>
    /\ outcomes = <<>>
    /\ sent = <<>>
    /\ waits = <<>>
    /\ response = <<>>
    /\ tasks = [i \in DOMAIN chunks |-> Task("created", 0, "")]
    /\ semaphore = max_concurrent(chunks)
    /\ gathered = [i \in DOMAIN chunks |-> Pending]
    /\ final_responses = <<>>
    /\ disp_pc = "gather"
    /\ gen_pc = "idle"
    /\ gen_result = <<>>
    /\ usage_stats = EmptyDict
    /\ hc_status = EmptyDict
    /\ hc_last_check = EmptyDict
    /\ hc_time = 0
    /\ hc_calls = <<>>

\* the task of position i enters "async with semaphore": the tasks reach it
\* in the order gather started them, and waiters are woken in that order
Acquire(i) ==
    /\ disp_pc = "gather"
    /\ tasks[i].pc = "created"
    /\ \A j \in 1..(i - 1) : tasks[j].pc # "created"
    /\ slot_free(semaphore)
    /\ semaphore' = semaphore - 1
    /\ tasks' = [tasks EXCEPT ![i].pc = "running"]
    /\ UNCHANGED <<gathered, final_responses, disp_pc>>
    /\ UNCHANGED <<chunkVars, aggVars, routerVars, requestVars, generateVars>>
    /\ UNCHANGED healthVars

\* _make_single_request of position i raises at range(max_retries); the
\* semaphore is released and gather keeps the exception as the task's result
RangeRaises(i) ==
    /\ disp_pc = "gather"
    /\ tasks[i].pc = "running"
    /\ ~max_retries.is_int
    /\ tasks' = [tasks EXCEPT ![i] = Task("done", 0, "TypeError")]
    /\ gathered' = [gathered EXCEPT ![i] = range_type_error]
    /\ semaphore' = release(semaphore)
    /\ disp_pc' = IF return_exceptions THEN disp_pc ELSE "raised"
    /\ UNCHANGED final_responses
    /\ UNCHANGED <<chunkVars, aggVars, routerVars, requestVars, generateVars>>
    /\ UNCHANGED healthVars

\* an attempt of the dispatch of position i ends in o: the dispatch returns
\* its response, or goes to sleep before the next attempt, or returns the
\* failure after the last attempt; a return releases the semaphore
TaskAttempt(i, o) ==
    /\ disp_pc = "gather"
    /\ tasks[i].pc = "running"
    /\ max_retries.is_int
    /\ more_attempts(tasks[i].attempt, max_retries.n)
    /\ LET k == tasks[i].attempt
       IN  IF completes(o)
           THEN /\ tasks' = [tasks EXCEPT ![i] = Task("done", k, o.kind)]
                /\ gathered' = [gathered EXCEPT ![i] =
                        success_response(chunks[i], req_model, k, o, linear_sleeps(k))]
                /\ semaphore' = release(semaphore)
           ELSE IF waits_before_retry(k, max_retries.n)
           THEN /\ tasks' = [tasks EXCEPT ![i] = Task("backoff", k, o.kind)]
                /\ UNCHANGED <<gathered, semaphore>>
           ELSE /\ tasks' = [tasks EXCEPT ![i] = Task("done", k, o.kind)]
                /\ gathered' = [gathered EXCEPT ![i] =
                        failure_response(chunks[i], req_model, max_retries.n,
                                         attempt_error(o), linear_sleeps(k))]
                /\ semaphore' = release(semaphore)
    /\ UNCHANGED <<final_responses, disp_pc>>
    /\ UNCHANGED <<chunkVars, aggVars, routerVars, requestVars, generateVars>>
    /\ UNCHANGED healthVars

\* the sleep of position i ends and its next attempt starts
BackoffEnds(i) ==
    /\ disp_pc = "gather"
    /\ tasks[i].pc = "backoff"
    /\ tasks' = [tasks EXCEPT ![i] = Task("running", tasks[i].attempt + 1, tasks[i].last)]
    /\ UNCHANGED <<semaphore, gathered, final_responses, disp_pc>>
    /\ UNCHANGED <<chunkVars, aggVars, routerVars, requestVars, generateVars>>
    /\ UNCHANGED healthVars

\* gather returns when every task has ended; the exceptions are converted
ConvertExceptions ==
    /\ disp_pc = "gather"
    /\ \A i \in DOMAIN tasks : tasks[i].pc = "done"
    /\ final_responses' = convert_exceptions(gathered, chunks, req_model)
    /\ disp_pc' = "returned"
    /\ UNCHANGED <<tasks, semaphore, gathered>>
    /\ UNCHANGED <<chunkVars, aggVars, routerVars, requestVars, generateVars>>
    /\ UNCHANGED healthVars

NextDispatch ==
    \/ \E i \in DOMAIN tasks : Acquire(i)
    \/ \E i \in DOMAIN tasks : RangeRaises(i)
    \/ \E i \in DOMAIN tasks, o \in DispatchOutcomes : TaskAttempt(i, o)
    \/ \E i \in DOMAIN tasks : BackoffEnds(i)
    \/ ConvertExceptions
SpecDispatch == InitDispatch /\ [][NextDispatch]_vars

\* The event loop runs every task that can run, every backend call of an
\* attempt ends (asyncio.wait_for puts a timeout on it) and every sleep ends:
\* a step of the dispatch that stays possible is taken.
SpecDispatchFair == SpecDispatch /\ WF_vars(NextDispatch)

-----------------------------------------------------------------------------
(* A request: generate_response from the selection of a model to the
   response it returns *)

\* a prompt that fits the 2 tokens the context leaves, and one that is split
GenerateTexts == {<<"a", ".">>, <<"a", "a", "a">>}
GenerateContext == MAX_TOKENS_PER_REQUEST - TOKEN_SAFETY_BUFFER - RESPONSE_BUFFER - 2
\* the shipped configuration, and an empty one
GenerateConfigs == {ShippedConfigs, <<>>}
\* the model argument: None (""), or a model that has no client
GenerateModels == {"", "other/model"}
GenerateRetryArgs == {IntArg(2), NotAnInt}

InitGenerate ==
    /\ content \in GenerateTexts
    /\ context_tokens = GenerateContext
    /\ strategy \in ChunkStrategy
    /\ tokenizer = "enc1"
    /\ chunk_pc = "call"
    /\ chunks = <<>>
    /\ agg_strategy = HYBRID
    /\ agg_chunks = <<>>
    /\ responses = <<>>
    /\ agg_pc = "idle"
    /\ merged_pairs = <<>>
    /\ aggregated = <<>>
    /\ MODEL_CONFIGS \in GenerateConfigs
    /\ health_status = EmptyDict
    /\ last_check = EmptyDict
    /\ now = 0
    /\ calls = 0
    /\ task_type = "auto"
    /\ requires_tools = FALSE
    /\ select_pc = "idle"
    /\ selected = ""
    /\ walked = <<>>
    /\ health_reports = EmptyDict
    /\ req_chunk = <<>>
    /\ req_model \in GenerateModels
    /\ max_retries \in GenerateRetryArgs
    /\ req_pc = "idle"
    /\ attempt = 0
    /\ last_error = <<"None">>
    /\ outcomes = <<>>
    /\ sent = <<>>
    /\ waits = <<>>
    /\ response = <<>>
    /\ tasks = <<>>
    /\ semaphore = 0
    /\ gathered = <<>>
    /\ final_responses = <<>>
    /\ disp_pc = "idle"
    /\ gen_pc = "call"
    /\ gen_result = <<>>
    /\ usage_stats = EmptyDict
    /\ hc_status = EmptyDict
    /\ hc_last_check = EmptyDict
    /\ hc_time = 0
    /\ hc_calls = <<>>

\* if not model: model = await self.router.select_model(...)
SelectForRequest ==
    /\ gen_pc = "call"
    /\ req_model = ""
    /\ select_pc = "idle"
    /\ \E up \in SUBSET CandidateNames(task_type, requires_tools) :
          SelectModel(task_type, requires_tools, up)

\* the model is the argument, or the one select_model returned
ModelChosen ==
    /\ gen_pc = "call"
    /\ req_model # "" \/ select_pc = "returned"
    /\ req_model' = IF req_model # "" THEN req_model ELSE selected
    /\ gen_pc' = "chunk"
    /\ UNCHANGED <<req_chunk, max_retries, req_pc, attempt, last_error, outcomes, sent,
                   waits, response, gen_result, usage_stats>>
    /\ UNCHANGED <<chunkVars, aggVars, routerVars, dispatchVars>>
    /\ UNCHANGED healthVars

\* chunks = await self.chunker.chunk_content(prompt, context, model, chunking_strategy)
ChunkForRequest ==
    /\ gen_pc = "chunk"
    /\ ChunkContent

\* if len(chunks) == 1: _make_single_request(chunks[0], ...) is called
DispatchSingle ==
    /\ gen_pc = "chunk"
    /\ chunk_pc = "returned"
    /\ Len(chunks) = 1
    /\ req_chunk' = chunks[1]
    /\ req_pc' = "call"
    /\ gen_pc' = "single"
    /\ UNCHANGED <<req_model, max_retries, attempt, last_error, outcomes, sent, waits,
                   response, gen_result, usage_stats>>
    /\ UNCHANGED <<chunkVars, aggVars, routerVars, dispatchVars>>
    /\ UNCHANGED healthVars

\* else: _process_chunks_concurrently(chunks, ...) is called, creates its
\* semaphore and hands its tasks to gather
DispatchChunks ==
    /\ gen_pc = "chunk"
    /\ chunk_pc = "returned"
    /\ Len(chunks) # 1
    /\ tasks' = [i \in DOMAIN chunks |-> Task("created", 0, "")]
    /\ semaphore' = max_concurrent(chunks)
    /\ gathered' = [i \in DOMAIN chunks |-> Pending]
    /\ disp_pc' = "gather"
    /\ gen_pc' = "multi"
    /\ UNCHANGED <<final_responses, gen_result, usage_stats>>
    /\ UNCHANGED <<chunkVars, aggVars, routerVars, requestVars>>
    /\ UNCHANGED healthVars

\* the single request returned: update_usage_stats, _log_usage (it keeps its
\* own exceptions), return response
ReturnSingle ==
    /\ gen_pc = "single"
    /\ req_pc = "returned"
    /\ usage_stats' = update_usage_stats(usage_stats, req_model, response)
    /\ gen_result' = response
    /\ gen_pc' = "returned"
    /\ UNCHANGED <<chunkVars, aggVars, routerVars, requestVars, dispatchVars>>
    /\ UNCHANGED healthVars

\* the chunk responses are aggregated and the AggregatedResponse is returned
AggregateAndReturn ==
    /\ gen_pc = "multi"
    /\ disp_pc = "returned"
    /\ \E out \in {aggregate_responses(final_responses, chunks, strategy)} :
          /\ aggregated' = out
          /\ gen_result' = out
    /\ gen_pc' = "returned"
    /\ UNCHANGED usage_stats
    /\ UNCHANGED <<agg_strategy, agg_chunks, responses, agg_pc, merged_pairs>>
    /\ UNCHANGED <<chunkVars, routerVars, requestVars, dispatchVars>>
    /\ UNCHANGED healthVars

\* an exception reaches "except Exception as e" of generate_response from
\* select_model or from _make_single_request
CatchAll ==
    /\ \/ gen_pc = "call" /\ select_pc = "raised"
       \/ gen_pc = "single" /\ req_pc = "raised"
    /\ LET e == IF gen_pc = "call" THEN select_model_error ELSE response
       IN  IF except_Exception(e)
           THEN /\ gen_result' = catch_all_response(req_model, e)
                /\ gen_pc' = "returned"
           ELSE /\ gen_result' = e
                /\ gen_pc' = "raised"
    /\ UNCHANGED usage_stats
    /\ UNCHANGED <<chunkVars, aggVars, routerVars, requestVars, dispatchVars>>
    /\ UNCHANGED healthVars

NextGenerate ==
    \/ SelectForRequest
    \/ ModelChosen
    \/ ChunkForRequest
    \/ DispatchSingle
    \/ DispatchChunks
    \/ NextRequest
    \/ NextDispatch
    \/ ReturnSingle
    \/ AggregateAndReturn
    \/ CatchAll
SpecGenerate == InitGenerate /\ [][NextGenerate]_vars

-----------------------------------------------------------------------------
(* A health checker: check_model_health calls that overlap, as time passes *)

HealthModels == {"openai/gpt-4o"}
\* the times followed: the first seconds, and the seconds around the interval
HealthTimes ==
    {0, 1, health_check_interval - 1, health_check_interval, health_check_interval + 1}

InitHealth ==
    /\ content = <<>>
    /\ context_tokens = 0
    /\ strategy = HYBRID
    /\ tokenizer = "enc1"
    /\ chunk_pc = "idle"
    /\ chunks = <<>>
    /\ agg_strategy = HYBRID
    /\ agg_chunks = <<>>
    /\ responses = <<>>
    /\ agg_pc = "idle"
    /\ merged_pairs = <<>>
    /\ aggregated = <<>>
    /\ MODEL_CONFIGS = ShippedConfigs
    /\ health_status = EmptyDict
    /\ last_check = EmptyDict
    /\ now = 0
    /\ calls = 0
    /\ task_type = "auto"
    /\ requires_tools = FALSE
    /\ select_pc = "idle"
    /\ selected = ""
    /\ walked = <<>>
    /\ health_reports = EmptyDict
    /\ req_chunk = <<>>
    /\ req_model = ""
    /\ max_retries = IntArg(0)
    /\ req_pc = "idle"
    /\ attempt = 0
    /\ last_error = <<>>
    /\ outcomes = <<>>
    /\ sent = <<>>
    /\ waits = <<>>
    /\ response = <<>>
    /\ tasks = <<>>
    /\ semaphore = 0
    /\ gathered = <<>>
    /\ final_responses = <<>>
    /\ disp_pc = "idle"
    /\ gen_pc = "idle"
    /\ gen_result = <<>>
    /\ usage_stats = EmptyDict
    /\ hc_status = EmptyDict
    /\ hc_last_check = EmptyDict
    /\ hc_time = 0
    /\ hc_calls = <<>>

\* self.clients holds the client of a model once _get_client has made it
HasClient(model) ==
    \E i \in DOMAIN hc_calls :
        hc_calls[i].model = model /\ hc_calls[i].outcome \notin {"cached", "no_client"}

\* a call starts: it reads the clock and the cache; with a valid entry it
\* returns the stored status, else it gets its client and awaits the probe
StartCheck(model) ==
    /\ Len(hc_calls) < MaxHealthCalls
    /\ hc_calls' = Append(hc_calls,
          IF cache_valid(hc_last_check, model, hc_time)
          THEN HealthCall(model, hc_time, "done", "cached", status_get(hc_status, model))
          ELSE HealthCall(model, hc_time, "probing", "", ""))
    /\ UNCHANGED <<hc_status, hc_last_check, hc_time>>
    /\ UNCHANGED <<chunkVars, aggVars, routerVars, requestVars, dispatchVars, generateVars>>

\* a call starts without a valid entry and _get_client raises: the except
\* clause stores False before anything is awaited
StartCheckWithoutClient(model) ==
    /\ Len(hc_calls) < MaxHealthCalls
    /\ ~cache_valid(hc_last_check, model, hc_time)
    /\ ~HasClient(model)
    /\ hc_calls' = Append(hc_calls, HealthCall(model, hc_time, "done", "no_client", "False"))
    /\ hc_status' = DictSet(hc_status, model, "False")
    /\ hc_last_check' = DictSet(hc_last_check, model, hc_time)
    /\ UNCHANGED hc_time
    /\ UNCHANGED <<chunkVars, aggVars, routerVars, requestVars, dispatchVars, generateVars>>

\* the probe of call i ends: the call stores its value under its own
\* current_time and returns it
FinishCheck(i, outcome) ==
    /\ hc_calls[i].pc = "probing"
    /\ hc_status' = DictSet(hc_status, hc_calls[i].model, probe_value(outcome))
    /\ hc_last_check' = DictSet(hc_last_check, hc_calls[i].model,
                               recorded_time(hc_calls[i], hc_time))
    /\ hc_calls' = [hc_calls EXCEPT ![i] =
          HealthCall(hc_calls[i].model, hc_calls[i].current_time, "done", outcome,
                     probe_value(outcome))]
    /\ UNCHANGED hc_time
    /\ UNCHANGED <<chunkVars, aggVars, routerVars, requestVars, dispatchVars, generateVars>>

\* time passes
HealthTick(t) ==
    /\ t > hc_time
    /\ hc_time' = t
    /\ UNCHANGED <<hc_status, hc_last_check, hc_calls>>
    /\ UNCHANGED <<chunkVars, aggVars, routerVars, requestVars, dispatchVars, generateVars>>

NextHealth ==
    \/ \E model \in HealthModels : StartCheck(model)
    \/ \E model \in HealthModels : StartCheckWithoutClient(model)
    \/ \E i \in DOMAIN hc_calls, outcome \in ProbeEnds : FinishCheck(i, outcome)
    \/ \E t \in HealthTimes : HealthTick(t)
SpecHealth == InitHealth /\ [][NextHealth]_vars

-----------------------------------------------------------------------------
(* Properties of chunk_content *)

\* the budget the context leaves, and the content's size, written out
Budget == MAX_TOKENS_PER_REQUEST - TOKEN_SAFETY_BUFFER - context_tokens - RESPONSE_BUFFER
ContentSize == count_tokens(content, tokenizer)

\* C1: content whose token count is within the available tokens comes back as
\* exactly one chunk holding the whole input, with chunk_index 0 and
\* total_chunks 1, whatever the strategy.
C1_FitsGivesSingleChunk ==
    (chunk_pc # "call" /\ ContentSize <= Budget) =>
        /\ chunk_pc = "returned"
        /\ Len(chunks) = 1
        /\ chunks[1].content = content
        /\ chunks[1].chunk_index = 0
        /\ chunks[1].total_chunks = 1

C1_Witness ==
    /\ chunk_pc = "returned"
    /\ ContentSize <= Budget
    /\ ContentSize = Budget
    /\ Len(content) > 1
    /\ strategy = SEMANTIC
    /\ Len(chunks) = 1

\* C2: when the context leaves no tokens (Budget <= 0) the call ends in a
\* capacity error: it neither returns chunks nor enters a strategy's loop.
C2_NoBudgetIsCapacityError ==
    (chunk_pc # "call" /\ Budget <= 0) => chunk_pc = "capacity_error"

\* the text a chunk adds: its content without the overlap recorded for it (a
\* token-based chunk records its own leading overlap, the other strategies
\* record on a chunk the tail it hands to the next one)
OwnText(list, i) ==
    LET c == list[i]
        lead == IF c.strategy_used = TOKEN_BASED THEN c.overlap_content
                ELSE IF i > 1 /\ list[i - 1].strategy_used = c.strategy_used
                THEN list[i - 1].overlap_content
                ELSE <<>>
    IN  IF StartsWith(c.content, lead)
        THEN SubSeq(c.content, Len(lead) + 1, Len(c.content))
        ELSE c.content
RECURSIVE Reconstruct(_, _)
Reconstruct(list, i) ==
    IF i > Len(list) THEN <<>> ELSE OwnText(list, i) \o Reconstruct(list, i + 1)
NonSpace(s) == SelectSeq(s, LAMBDA c : ~IsSpace(c))

\* C3: content over a positive budget comes back as at least 2 chunks whose
\* contents, overlaps removed, give the content back in order; the white space
\* a split consumes between two units is not counted as dropped.
C3_SplitCoversContent ==
    (chunk_pc # "call" /\ Budget > 0 /\ ContentSize > Budget) =>
        /\ chunk_pc = "returned"
        /\ Len(chunks) >= 2
        /\ NonSpace(Reconstruct(chunks, 1)) = NonSpace(content)

\* C4: every chunk of a returned list carries the length of the list as its
\* total_chunks, also the chunks a nested fallback strategy produced.
C4_TotalChunksIsLength ==
    chunk_pc = "returned" => \A i \in DOMAIN chunks : chunks[i].total_chunks = Len(chunks)

C4_Witness ==
    /\ chunk_pc = "returned"
    /\ strategy = SEMANTIC
    /\ Len(chunks) >= 3
    /\ \E i, j \in DOMAIN chunks :
          /\ chunks[i].strategy_used = SENTENCE_BASED
          /\ chunks[j].strategy_used = TOKEN_BASED
    /\ \A i \in DOMAIN chunks : chunks[i].total_chunks = Len(chunks)

\* C16: a call on content that is empty once its white space is trimmed
\* returns an empty list of chunks: no chunk of empty content, and no error.
C16_EmptyContentGivesNoChunks ==
    (chunk_pc # "call" /\ Strip(content) = <<>>) =>
        (chunk_pc = "returned" /\ Len(chunks) = 0)

\* C17: with a positive budget, the content of every returned chunk, the
\* overlap it carries included, counts at most Budget tokens, whatever the
\* strategy.
C17_ChunksWithinBudget ==
    (chunk_pc = "returned" /\ Budget > 0) =>
        \A i \in DOMAIN chunks : count_tokens(chunks[i].content, tokenizer) <= Budget

\* C19: with a positive budget, a call that splits by tokens ends: the loop of
\* _token_based_chunking moves start forward in every iteration.
C19_TokenChunkingTerminates ==
    (strategy = TOKEN_BASED /\ Budget > 0 /\ ContentSize > Budget) =>
        chunk_pc \in {"call", "returned"}

-----------------------------------------------------------------------------
(* Properties of aggregate_responses *)

Positions == DOMAIN responses
Succeeded == {i \in Positions : responses[i].success}
Failed == Positions \ Succeeded

\* C5: whatever the order in which the dispatches ended and whichever chunks
\* failed, the merge goes through the successful responses only, each once,
\* in ascending order of the chunk_index of the chunk each one answers.
C5_MergesSuccessesInIndexOrder ==
    (agg_pc = "done" /\ Succeeded # {}) =>
        /\ Len(merged_pairs) = Cardinality(Succeeded)
        /\ \A k \in DOMAIN merged_pairs : merged_pairs[k][1].success
        /\ \A j, k \in DOMAIN merged_pairs :
              j < k => merged_pairs[j][1].metadata.chunk_index
                           <= merged_pairs[k][1].metadata.chunk_index

\* the k-th failed position, in chunk order
FailedInOrder == SelectSeq([i \in Positions |-> i], LAMBDA i : i \in Failed)

\* C6: success is reported iff some response succeeded, and failed_chunks is
\* the list of the chunk ids of the chunks whose response failed; when all
\* failed, success is false and failed_chunks is as long as the response list.
C6_SuccessAndFailedChunks ==
    agg_pc = "done" =>
        /\ aggregated.success = (Succeeded # {})
        /\ Len(aggregated.failed_chunks) = Cardinality(Failed)
        /\ \A k \in DOMAIN aggregated.failed_chunks :
              aggregated.failed_chunks[k] = agg_chunks[FailedInOrder[k]].chunk_id
        /\ (Succeeded = {} =>
              /\ ~aggregated.success
              /\ Len(aggregated.failed_chunks) = Len(responses))

C6_Witness ==
    /\ agg_pc = "done"
    /\ Len(responses) >= 3
    /\ 1 \in Failed
    /\ Cardinality(Failed) >= 2
    /\ Succeeded # {}
    /\ aggregated.success
    /\ Len(aggregated.failed_chunks) = Cardinality(Failed)

RECURSIVE SumAt(_, _)
SumAt(field, positions) ==
    IF positions = {} THEN 0
    ELSE LET i == CHOOSE i \in positions : TRUE
         IN  responses[i][field] + SumAt(field, positions \ {i})

\* C7: total_input_tokens adds input_tokens over all responses, failed ones
\* included; total_output_tokens adds output_tokens over the successful ones
\* only; total_response_time adds response_time over all responses.
C7_Totals ==
    agg_pc = "done" =>
        /\ aggregated.total_input_tokens = SumAt("input_tokens", Positions)
        /\ aggregated.total_output_tokens = SumAt("output_tokens", Succeeded)
        /\ aggregated.total_response_time = SumAt("response_time", Positions)

C7_Witness ==
    /\ agg_pc = "done"
    /\ Succeeded # {}
    /\ \E i \in Failed : responses[i].input_tokens > 0 /\ responses[i].output_tokens > 0
    /\ aggregated.total_input_tokens > SumAt("input_tokens", Succeeded)
    /\ aggregated.total_output_tokens < SumAt("output_tokens", Positions)

-----------------------------------------------------------------------------
(* Properties of select_model *)

\* the configured models that have the capability task_type asks for and,
\* when tools are required, the tool calling capability
Required == IF task_type \in {"code_generation", "code_analysis", "text_processing", "reasoning"}
            THEN {task_type} ELSE {}
Matching ==
    {m \in Configured :
        /\ Required \subseteq model_capabilities(m)
        /\ requires_tools => "tool_calling" \in model_capabilities(m)}
Candidates == IF Matching = {} THEN Configured ELSE Matching
PriorityOf(m) == (CHOOSE c \in Range(MODEL_CONFIGS) : c.model = m).priority
HealthyCandidates == {m \in Candidates : health_reports[m]}

\* C8: a select_model call never raises and returns a non-empty model
\* identifier, whatever the task type, the tools requirement, the health of
\* the models and the configuration, the empty configuration included.
C8_SelectNeverRaises ==
    select_pc # "idle" => (select_pc = "returned" /\ selected # "")

\* C9: the model returned is the first candidate in ascending priority order
\* that the health checker reports healthy, and the first candidate of that
\* order when none is reported healthy; no candidate is returned while a
\* healthy candidate with a smaller priority number exists.
C9_FirstHealthyByPriority ==
    select_pc = "returned" =>
        /\ selected \in Candidates
        /\ DOMAIN health_reports = Candidates
        /\ LET pool == IF HealthyCandidates = {} THEN Candidates ELSE HealthyCandidates
           IN  /\ selected \in pool
               /\ \A m \in pool : PriorityOf(selected) <= PriorityOf(m)
        /\ \A m \in HealthyCandidates : PriorityOf(m) >= PriorityOf(selected)

C9_Witness ==
    /\ select_pc = "returned"
    /\ Cardinality(Candidates) >= 3
    /\ HealthyCandidates # {}
    /\ \E m \in Candidates \ HealthyCandidates : PriorityOf(m) < PriorityOf(selected)
    /\ \E m \in HealthyCandidates : PriorityOf(m) > PriorityOf(selected)

\* C10: when some configured model has both the capability of the task type
\* and the tools requirement, only such a model is returned; when none has,
\* the candidates are all the configured models and one of them is returned,
\* not an error.
C10_CapabilityFilterWithFallback ==
    /\ select_pc = "returned" =>
          /\ Matching # {} => selected \in Matching
          /\ Matching = {} => (selected \in Configured /\ DOMAIN health_reports = Configured)
    /\ (select_pc # "idle" /\ Configured # {}) => select_pc = "returned"

C10_Witness ==
    /\ select_pc = "returned"
    /\ task_type = "code_generation"
    /\ Configured = {"cohere/cohere-command-a"}
    /\ Matching = {}
    /\ selected = "cohere/cohere-command-a"

-----------------------------------------------------------------------------
(* Properties of _make_single_request *)

Succeeds(k) == outcomes[k].kind = "response"
LastPart(text, n) == SubSeq(text, Len(text) - n + 1, Len(text))

\* C11: with an int max_retries, at most max_retries attempts are made; the
\* first attempt that succeeds is the last one made and the call returns
\* success (also when it is attempt number max_retries); when max_retries
\* attempts have failed the call returns success=false with an error that
\* names max_retries and ends with the last error.
C11_RetriesThenResult ==
    max_retries.is_int =>
        /\ Len(outcomes) <= max_retries.n
        /\ \A k \in DOMAIN outcomes :
              Succeeds(k) => /\ k = Len(outcomes)
                             /\ req_pc = "returned"
                             /\ response.success
        /\ (req_pc = "returned" /\ \A k \in DOMAIN outcomes : ~Succeeds(k)) =>
              /\ Len(outcomes) = max_retries.n
              /\ ~response.success
              /\ Str(max_retries.n) \in Range(response.error)
              /\ Len(response.error) > Len(last_error)
              /\ LastPart(response.error, Len(last_error)) = last_error
              /\ (Len(outcomes) > 0 /\ outcomes[Len(outcomes)].kind = "TimeoutError") =>
                    "Request timeout after 120s" \in Range(response.error)

C11_Witness ==
    /\ req_pc = "returned"
    /\ max_retries = IntArg(MaxRetries)
    /\ Len(outcomes) = MaxRetries
    /\ \A k \in 1..(MaxRetries - 1) : outcomes[k].kind = "TimeoutError"
    /\ Succeeds(MaxRetries)
    /\ response.success

\* the sleeps made after attempt number a (from 0)
WaitsAfter(a) == SelectSeq(waits, LAMBDA w : w.after_attempt = a)
\* attempt number a has failed and its waiting is over
Waited(a) == a + 1 <= Len(outcomes) /\ ~Succeeds(a + 1) /\ (attempt > a \/ req_pc = "returned")
RateLimited(a) == outcomes[a + 1].status_code = 429

\* C20: after a failed attempt that is not the last one, the call waits once:
\* 2^attempt seconds after a rate limit response, and 1s x the attempt number
\* after a timeout or any other error; after the last attempt it does not wait.
C20_BackoffBetweenAttempts ==
    max_retries.is_int =>
        \A a \in 0..(max_retries.n - 1) :
            Waited(a) =>
                IF a = max_retries.n - 1 THEN WaitsAfter(a) = <<>>
                ELSE /\ Len(WaitsAfter(a)) = 1
                     /\ WaitsAfter(a)[1].seconds = IF RateLimited(a) THEN 2^a ELSE a + 1

\* C18: the request was made with a non-empty context (it counts tokens), and
\* every backend request of every attempt for the chunk carries two messages:
\* the context as system message, then the chunk content as user message.
C18_ContextSentAsSystemMessage ==
    context_tokens > 0 =>
        \A k \in DOMAIN sent :
            /\ Len(sent[k]) = 2
            /\ sent[k][1].role = "system"
            /\ sent[k][2].role = "user"
            /\ sent[k][2].content = req_chunk.content

-----------------------------------------------------------------------------
(* Properties of _process_chunks_concurrently *)

\* the dispatches in flight: inside _make_single_request, its sleeps included
InFlight == {i \in DOMAIN tasks : tasks[i].pc \in {"running", "backoff"}}
DispatchLimit == Min(Len(chunks), MAX_CONCURRENT)

\* C13: during a concurrent dispatch over n chunks at most min(n, 5)
\* dispatches are in flight, and the semaphore counts the free slots: when
\* none is free, the next task waits until a dispatch in flight ends.
C13_InFlightWithinLimit ==
    disp_pc # "idle" =>
        /\ Cardinality(InFlight) <= DispatchLimit
        /\ semaphore = DispatchLimit - Cardinality(InFlight)

C13_Witness ==
    /\ disp_pc = "gather"
    /\ Len(chunks) > MAX_CONCURRENT
    /\ Cardinality(InFlight) = MAX_CONCURRENT
    /\ \E i \in DOMAIN tasks : tasks[i].pc = "backoff"
    /\ \E i \in DOMAIN tasks : tasks[i].pc = "created"

\* C14: the call never ends in the exception of a task; when it returns, every
\* task has run to its own end, and position i holds the response of chunk i:
\* a success iff the last attempt of that dispatch got a response, else a
\* failed response with chunk i's chunk_id and an error text.
C14_FailureStaysAtItsPosition ==
    /\ disp_pc # "raised"
    /\ disp_pc = "returned" =>
          /\ Len(final_responses) = Len(chunks)
          /\ \A i \in DOMAIN chunks :
                /\ tasks[i].pc = "done"
                /\ final_responses[i].chunk_id = chunks[i].chunk_id
                /\ final_responses[i].success <=> (tasks[i].last = "response")
                /\ tasks[i].last # "response" => final_responses[i].error # <<>>

C14_Witness ==
    /\ disp_pc = "returned"
    /\ \E i, j \in DOMAIN chunks :
          /\ i < j
          /\ tasks[i].last = "TimeoutError"
          /\ ~final_responses[i].success
          /\ final_responses[i].chunk_id = chunks[i].chunk_id
          /\ tasks[j].last = "response"
          /\ final_responses[j].success

-----------------------------------------------------------------------------
(* Properties of generate_response *)

IsModelResponse(r) == "error" \in DOMAIN r
\* a failed ModelResponse has no content and says what went wrong
EmptyWithError(r) == r.content = <<>> /\ r.error # <<>>

\* C12: every ModelResponse with success false has empty content and a
\* non-empty error text: the response _make_single_request returns after its
\* retries, the responses _process_chunks_concurrently holds and returns
\* (failures of a dispatch and converted exceptions), and the response the
\* except clause of generate_response returns.
C12_FailedResponseHasErrorOnly ==
    /\ (req_pc = "returned" /\ ~response.success) => EmptyWithError(response)
    /\ \A i \in DOMAIN gathered :
          (IsModelResponse(gathered[i]) /\ ~gathered[i].success) =>
              EmptyWithError(gathered[i])
    /\ \A i \in DOMAIN final_responses :
          ~final_responses[i].success => EmptyWithError(final_responses[i])
    /\ (gen_pc = "returned" /\ IsModelResponse(gen_result) /\ ~gen_result.success) =>
          EmptyWithError(gen_result)

C12_Witness ==
    /\ gen_pc = "returned"
    /\ disp_pc = "returned"
    /\ \E i \in DOMAIN gathered :
          /\ IsException(gathered[i])
          /\ ~final_responses[i].success
          /\ final_responses[i].content = <<>>
          /\ final_responses[i].error = range_type_error.message

-----------------------------------------------------------------------------
(* Properties of check_model_health *)

\* a step in which a call starts, and the call; a step in which call i ends
\* its probe
CallStarts == Len(hc_calls') = Len(hc_calls) + 1
StartedCall == hc_calls'[Len(hc_calls')]
ProbeEndsAt(i) == hc_calls[i].pc = "probing" /\ hc_calls'[i].pc = "done"
Probed(c) == c.outcome \notin {"cached", "no_client"}

\* C21: a call that starts while the model has a record less than 300 seconds
\* old makes no probe, returns the stored status and leaves the record; a call
\* that starts without a record, or with one that is 300 seconds old or older,
\* goes on to a probe, and the end of its probe overwrites the record with the
\* probe's result.
C21_ProbeOnlyAfterInterval ==
    [][ /\ CallStarts =>
              IF /\ StartedCall.model \in DOMAIN hc_last_check
                 /\ hc_time - hc_last_check[StartedCall.model] < health_check_interval
              THEN /\ StartedCall.pc = "done"
                   /\ StartedCall.outcome = "cached"
                   /\ StartedCall.returned = hc_status[StartedCall.model]
                   /\ UNCHANGED <<hc_status, hc_last_check>>
              ELSE StartedCall.outcome # "cached"
        /\ \A i \in DOMAIN hc_calls :
              ProbeEndsAt(i) =>
                  /\ hc_calls[i].model \in DOMAIN hc_status'
                  /\ hc_status'[hc_calls[i].model] = hc_calls'[i].returned
                  /\ hc_calls'[i].returned = probe_value(hc_calls'[i].outcome)
      ]_vars

C21_Witness ==
    \E i, j, k \in DOMAIN hc_calls :
        /\ i < j /\ j < k
        /\ Probed(hc_calls[i]) /\ hc_calls[i].pc = "done" /\ hc_calls[i].outcome = "valid"
        /\ hc_calls[j].outcome = "cached"
        /\ hc_calls[j].returned = "True"
        /\ hc_calls[j].current_time - hc_calls[i].current_time = health_check_interval - 1
        /\ hc_calls[k].pc = "done" /\ hc_calls[k].outcome = "timeout"
        /\ hc_calls[k].current_time - hc_calls[i].current_time = health_check_interval
        /\ hc_status[hc_calls[k].model] = "False"

\* C22: every call returns a boolean: True for a probe that got a response
\* with a choice and from a stored True, False for every other end of the
\* probe, which is also recorded with a last-check time.
C22_AlwaysReturnsBoolean ==
    \A i \in DOMAIN hc_calls :
        hc_calls[i].pc = "done" =>
            /\ hc_calls[i].returned \in {"True", "False"}
            /\ hc_calls[i].outcome # "cached" =>
                  /\ hc_calls[i].returned = "True" <=> hc_calls[i].outcome = "valid"
                  /\ hc_calls[i].model \in DOMAIN hc_last_check
                  /\ hc_calls[i].model \in DOMAIN hc_status

\* the calls for model m that have written the record
Writers(m) ==
    {i \in DOMAIN hc_calls :
        hc_calls[i].model = m /\ hc_calls[i].pc = "done" /\ hc_calls[i].outcome # "cached"}
LastStarted(m) == CHOOSE i \in Writers(m) : \A j \in Writers(m) : j <= i
NoneProbing(m) ==
    \A i \in DOMAIN hc_calls : hc_calls[i].model = m => hc_calls[i].pc = "done"

\* C29 as stated: the recorded last-check time of a model is never behind the
\* current_time of a call that has written it, and once no call is probing the
\* stored status is the result of the writer that started last.
C29_TimestampNeverMovesBack ==
    \A m \in HealthModels :
        /\ \A i \in Writers(m) : hc_last_check[m] >= hc_calls[i].current_time
        /\ (NoneProbing(m) /\ Writers(m) # {}) =>
              hc_status[m] = hc_calls[LastStarted(m)].returned

\* C29, amended: the last write wins.  Whenever a probe ends, the record of
\* its model becomes the current_time and the result of that call, whichever
\* calls started before or after it; no other step but a failed client
\* creation changes a record.
C29_LastWriteWins ==
    [][ /\ \A i \in DOMAIN hc_calls :
              ProbeEndsAt(i) =>
                  /\ hc_last_check'[hc_calls[i].model] = hc_calls[i].current_time
                  /\ hc_status'[hc_calls[i].model] = hc_calls'[i].returned
        /\ (hc_last_check' # hc_last_check \/ hc_status' # hc_status) =>
              \/ \E i \in DOMAIN hc_calls : ProbeEndsAt(i)
              \/ CallStarts /\ StartedCall.outcome = "no_client"
      ]_vars

\* two overlapping calls: the one that started first wrote last, and the
\* record went back to its time
C29_Witness ==
    \E i, j \in DOMAIN hc_calls :
        /\ i < j
        /\ hc_calls[i].model = hc_calls[j].model
        /\ hc_calls[i].pc = "done" /\ Probed(hc_calls[i])
        /\ hc_calls[j].pc = "done" /\ Probed(hc_calls[j])
        /\ hc_calls[i].current_time < hc_calls[j].current_time
        /\ hc_last_check[hc_calls[i].model] = hc_calls[i].current_time
        /\ hc_calls[i].returned # hc_calls[j].returned
        /\ hc_status[hc_calls[i].model] = hc_calls[i].returned

-----------------------------------------------------------------------------
(* Properties of the chunk lists of chunk_content *)

\* C27: in every returned list the chunk at position i (counted from 0) has
\* chunk_index i, also when a nested fallback strategy produced chunks.
C27_ChunkIndexIsPosition ==
    chunk_pc = "returned" => \A i \in DOMAIN chunks : chunks[i].chunk_index = i - 1

\* s ends with t
IsTail(t, s) == Len(t) <= Len(s) /\ SubSeq(s, Len(s) - Len(t) + 1, Len(s)) = t

\* C24: a chunk of a returned list with a non-empty overlap_content is not
\* the first chunk, its content begins with its overlap_content, and its
\* overlap_content is the tail of the content of the chunk before it.
C24_OverlapLeadsTheLaterChunk ==
    chunk_pc = "returned" =>
        \A i \in DOMAIN chunks :
            Len(chunks[i].overlap_content) > 0 =>
                /\ i > 1
                /\ StartsWith(chunks[i].content, chunks[i].overlap_content)
                /\ IsTail(chunks[i].overlap_content, chunks[i - 1].content)

-----------------------------------------------------------------------------
(* Properties of the merge functions *)

\* C28: every pair a merge function goes through holds a successful response
\* and the chunk it answers: the chunk_id of the response is the chunk_id of
\* the chunk, also when the response of an earlier chunk failed.
C28_ResponseMergedWithItsChunk ==
    agg_pc = "done" =>
        \A k \in DOMAIN merged_pairs : merged_pairs[k][1].chunk_id = merged_pairs[k][2].chunk_id

\* the successful responses in chunk order, each with the chunk it answers
OwnPairs == [k \in 1..Cardinality(Succeeded) |->
                LET i == SelectSeq([j \in Positions |-> j], LAMBDA j : j \in Succeeded)[k]
                IN  <<responses[i], agg_chunks[i]>>]

\* the output of pair k without the leading text that matches the
\* overlap_content recorded on the chunk of pair k - 1
WithoutRecordedOverlap(pairs, k) ==
    LET out == Strip(pairs[k][1].content)
        recorded == IF k > 1 THEN Strip(pairs[k - 1][2].overlap_content) ELSE <<>>
    IN  IF Len(recorded) > 0 /\ StartsWith(out, recorded)
        THEN LStrip(SubSeq(out, Len(recorded) + 1, Len(out)))
        ELSE out

\* C25: the function-based merge is the outputs of the successful responses in
\* index order, each without the leading text that matches the overlap_content
\* of the chunk before it, joined with blank lines.
C25_CodeMergeStripsRecordedOverlap ==
    (agg_pc = "done" /\ Succeeded # {} /\ agg_strategy = FUNCTION_BASED) =>
        aggregated.content =
            Join([k \in DOMAIN OwnPairs |-> WithoutRecordedOverlap(OwnPairs, k)], <<"\n", "\n">>)

\* the case of C25 in which every response succeeded
AllSucceededCodeMerge ==
    (agg_pc = "done" /\ Failed = {}) => C25_CodeMergeStripsRecordedOverlap

-----------------------------------------------------------------------------
(* Properties of select_model with requires_tools *)

ToolModels == {m \in Configured : TOOL_CALLING \in model_capabilities(m)}

\* C30 as stated: a call with requires_tools, some configured model declaring
\* TOOL_CALLING, returns a model that declares TOOL_CALLING, whatever the
\* task type.
C30_ToolsRequestGetsToolModel ==
    (select_pc = "returned" /\ requires_tools /\ ToolModels # {}) =>
        selected \in ToolModels

\* C30, amended: a call with requires_tools returns a model declaring
\* TOOL_CALLING whenever some configured model declares TOOL_CALLING together
\* with the capability of the task type; when none declares both, the
\* candidates are all the configured models and the model returned is the
\* first of them by priority and health, with TOOL_CALLING or without.
C30_ToolModelWhenOneMatches ==
    (select_pc = "returned" /\ requires_tools) =>
        /\ Matching # {} => selected \in ToolModels
        /\ Matching = {} => (selected \in Configured /\ DOMAIN health_reports = Configured)

\* a model without TOOL_CALLING is configured with the best priority and is
\* passed over for a tool model; the better tool model was reported unhealthy
C30_Witness ==
    /\ select_pc = "returned"
    /\ requires_tools
    /\ task_type = "auto"
    /\ Configured \ ToolModels # {}
    /\ selected \in ToolModels
    /\ \E m \in Configured \ ToolModels : PriorityOf(m) <= PriorityOf(selected)
    /\ \E m \in Matching : ~health_reports[m]

-----------------------------------------------------------------------------
(* Properties of the usage statistics *)

\* stats["total_requests"] of the model of the request, 0 without an entry
TotalRequests ==
    IF req_model \in DOMAIN usage_stats THEN usage_stats[req_model].total_requests ELSE 0

\* C26: when a generate_response call that dispatched requests has returned,
\* total_requests of its model is the number of responses the dispatches
\* produced: 1 for a single chunk, one per chunk for several chunks.
C26_EveryResponseInUsageStats ==
    gen_pc = "returned" =>
        /\ req_pc = "returned" => TotalRequests = 1
        /\ disp_pc = "returned" => TotalRequests = Len(final_responses)

\* the single-chunk case of C26: the response of the single request is
\* counted once, as a success or as an error
SingleRequestInUsageStats ==
    (gen_pc = "returned" /\ req_pc = "returned") =>
        /\ TotalRequests = 1
        /\ usage_stats[req_model].success_count = (IF response.success THEN 1 ELSE 0)
        /\ usage_stats[req_model].error_count = (IF response.success THEN 0 ELSE 1)

-----------------------------------------------------------------------------
(* Termination of _process_chunks_concurrently *)

\* the call has returned one response per chunk, in the order of the chunks
OneResponsePerChunk ==
    /\ disp_pc = "returned"
    /\ Len(final_responses) = Len(chunks)
    /\ \A i \in DOMAIN chunks :
          /\ IsModelResponse(final_responses[i])
          /\ final_responses[i].chunk_id = chunks[i].chunk_id

\* some dispatch is waiting for a slot of the semaphore
WaitsForSlot == disp_pc = "gather" /\ \E i \in DOMAIN tasks : tasks[i].pc = "created"

\* C23: when every attempt and every sleep ends, the call eventually returns
\* one response per chunk in chunk order, and from some time on no dispatch is
\* waiting for a slot of the semaphore: none waits for ever.
C23_DispatchEventuallyReturns ==
    /\ <>OneResponsePerChunk
    /\ <>[]~WaitsForSlot

\* more chunks than slots: the call returned after a dispatch had slept and
\* tried again, with failed and successful responses in its list
C23_Witness ==
    /\ OneResponsePerChunk
    /\ Len(chunks) > MAX_CONCURRENT
    /\ \E i \in DOMAIN tasks : tasks[i].attempt > 0
    /\ \E i \in DOMAIN chunks : final_responses[i].success
    /\ \E i \in DOMAIN chunks : ~final_responses[i].success

====
